---- MODULE Spec2Model ----
(***************************************************************************)
(* Model of the NotPortable all-in-one server (src/parser.py): the MPU     *)
(* anomaly detector, the UDP receiver / virtual keyboard, the log watcher  *)
(* and the foreground menu loop.                                            *)
(*                                                                          *)
(* Angles are whole degrees; a baseline (a mean of calibration_count       *)
(* samples) is kept in units of 1/SCALE degree so that the division is      *)
(* exact.  time.time() is the integer clock `now`, one unit per second.    *)
(* Python's None is the empty sequence, a set value v is <<v>>.            *)
(***************************************************************************)
EXTENDS Integers, Sequences, FiniteSets, TLC

VARIABLES
    mpu_detector,   \* the global MPUAnomalyDetector instance
    now,            \* the wall clock read by time.time()
    env,            \* what the host offers: evdev import, uinput, UDP port
    vk,             \* the VirtualKeyboard instance of main()
    uinput,         \* the virtual input device behind vk.keyboard
    watcher,        \* the LogWatcher instance of main()
    pc,             \* position of each thread
    loc,            \* locals of each thread
    nUpdates,       \* history: number of update calls made
    firstSamples,   \* history: arguments of the first update calls
    lastCheck,      \* history: the most recent check_anomaly call taken as a whole
    passLog,        \* history: check_anomaly calls that passed the rate limit
    lastFrame,      \* history: what the last received datagram caused
    files,          \* the score files of LOG_PATHS on disk
    collector,      \* the collector (src/main.py): reachable or not, one table per game
    lastParse,      \* history: the most recent parser call taken as a whole
    lastSend,       \* history: the most recent send_to_api call
    lastPoll,       \* history: what the poller last did with a watched file
    manager,        \* the ConnectionManager instance of src/main.py
    chat,           \* the /ws/chat handlers: position, locals, what each client got
    lastPost        \* history: the most recent POST to a log endpoint

\* the score-file pipeline: files, collector and their histories
pipeVars == <<files, collector, lastParse, lastSend, lastPoll>>

\* the collector process: chat and the history of its log endpoints
serverVars == <<manager, chat, lastPost>>

vars == <<mpu_detector, now, env, vk, uinput, watcher, pc, loc,
          nUpdates, firstSamples, lastCheck, passLog, lastFrame, pipeVars,
          serverVars>>

-----------------------------------------------------------------------------
(* Bounds of the model *)

MaxTime == 4          \* the clock stops advancing here
MaxRecords == 2       \* records found by one parse_all taken as a whole
MaxMtime == 3         \* a score file is written until its modification time is this
MaxLines == 2         \* lines of a score file
MaxBatch == 2         \* records of a batch handed to send_to_api
MaxRows == 3          \* rows of a table of the collector under direct POSTs
MaxMessages == 4      \* broadcasts of the chat taken send by send
MaxBroadcasts == 52   \* broadcasts of the chat taken as wholes

(* Program constants *)

THRESHOLD_LOW == 1000
THRESHOLD_HIGH == 3000
check_interval == 2
pitch_threshold == 15
roll_threshold == 15
calibration_count == 10
history_limit == 50

SCALE == calibration_count   \* baselines are in 1/SCALE degree

None == <<>>
Some(v) == <<v>>
Val(o) == o[1]

Abs(x) == IF x < 0 THEN -x ELSE x

RECURSIVE SeqSum(_)
SeqSum(s) == IF s = <<>> THEN 0 ELSE s[1] + SeqSum(Tail(s))

Column(samples, i) == [k \in 1..Len(samples) |-> samples[k][i]]

-----------------------------------------------------------------------------
(* MPUAnomalyDetector *)

DetectorInit ==
    [enabled |-> TRUE,
     baseline_pitch |-> None,
     baseline_roll |-> None,
     current_pitch |-> 0,
     current_roll |-> 0,
     last_check_time |-> 0,
     calibration_samples |-> <<>>]

\* sum(s[i] for s in samples) / len(samples), in 1/SCALE degree
Average(samples, i) == (SCALE * SeqSum(Column(samples, i))) \div Len(samples)

\* a detector that recalibrates on every frame
CalibratingGuard_always(d) == TRUE

CalibratingGuard(d) == d.baseline_pitch = None

\* an off-by-one calibration length
CalibrationFull_late(samples) == Len(samples) > calibration_count

CalibrationFull(samples) == Len(samples) >= calibration_count

\* update, lines 85-95: everything up to the assignment of baseline_pitch
update_first(d, pitch, roll) ==
    LET d1 == [d EXCEPT !.current_pitch = pitch, !.current_roll = roll]
        samples == Append(d.calibration_samples, <<pitch, roll>>)
        d2 == [d1 EXCEPT !.calibration_samples = samples]
    IN  IF CalibratingGuard(d1)
        THEN IF CalibrationFull(samples)
             THEN [d2 EXCEPT !.baseline_pitch = Some(Average(samples, 1))]
             ELSE d2
        ELSE d1

\* update, line 96: the assignment of baseline_roll
update_second(d) ==
    [d EXCEPT !.baseline_roll = Some(Average(d.calibration_samples, 2))]

\* does this update call reach lines 93-96
SetsBaseline(d, pitch, roll) ==
    d.baseline_pitch = None /\ update_first(d, pitch, roll).baseline_pitch # None

\* the whole update call
update(d, pitch, roll) ==
    IF SetsBaseline(d, pitch, roll)
    THEN update_second(update_first(d, pitch, roll))
    ELSE update_first(d, pitch, roll)

\* a check that tests only the enabled switch on line 101
NotArmed_enabledonly(d) == ~d.enabled

\* check_anomaly, line 101
NotArmed(d) == ~d.enabled \/ d.baseline_pitch = None

\* a detector without a rate limit
RateLimited_never(d, current_time) == FALSE

\* check_anomaly, line 106
RateLimited(d, current_time) ==
    current_time - d.last_check_time < check_interval

\* a check that forgets to record its time
Stamp_forgotten(d, current_time) == d

\* check_anomaly, line 109
Stamp(d, current_time) == [d EXCEPT !.last_check_time = current_time]

\* check_anomaly, lines 112-116 (baseline_roll is set)
Deviates(d) ==
    \/ Abs(SCALE * d.current_pitch - Val(d.baseline_pitch)) > SCALE * pitch_threshold
    \/ Abs(SCALE * d.current_roll - Val(d.baseline_roll)) > SCALE * roll_threshold

\* the outcome of lines 112-122: abs(x - None) raises TypeError
Compare(d) ==
    IF d.baseline_pitch = None \/ d.baseline_roll = None THEN "raise"
    ELSE IF Deviates(d) THEN "true" ELSE "false"

\* the whole check_anomaly call made at clock value current_time
check_anomaly(d, current_time) ==
    IF NotArmed(d)
    THEN [det |-> d, compared |-> FALSE, result |-> "false"]
    ELSE IF RateLimited(d, current_time)
    THEN [det |-> d, compared |-> FALSE, result |-> "false"]
    ELSE [det |-> Stamp(d, current_time), compared |-> TRUE,
          result |-> Compare(Stamp(d, current_time))]

-----------------------------------------------------------------------------
(* Datagrams and VirtualKeyboard._process_data *)

\* A datagram is its text split at the commas; a field is the text of an
\* integer ("999"), of a decimal number ("20.0"), or something else ("abc").
IntTok(v) == [k |-> "int", v |-> v]
DecTok(v) == [k |-> "dec", v |-> v]
Junk == [k |-> "junk", v |-> 0]

\* int(text) and float(text) raise ValueError unless the text has the shape
IntParses(tok) == tok.k = "int"
FloatParses(tok) == tok.k \in {"int", "dec"}

\* parts[i] == '1'
IsOne(tok) == tok = IntTok(1)

\* a field count accepted whenever there are enough fields
FieldCountOk_atleast(parts) == Len(parts) >= 9

\* line 194
FieldCountOk(parts) == Len(parts) = 9

\* lines 193-206: the frame, or None when the datagram is discarded
\* (UnicodeDecodeError is a ValueError)
Decode(data) ==
    IF ~data.utf8 THEN None
    ELSE IF ~FieldCountOk(data.parts) THEN None
    ELSE IF ~IntParses(data.parts[1]) \/ ~IntParses(data.parts[2]) THEN None
    ELSE IF ~FloatParses(data.parts[8]) \/ ~FloatParses(data.parts[9]) THEN None
    ELSE Some([x_val |-> data.parts[1].v,
               y_val |-> data.parts[2].v,
               sw_pressed |-> IsOne(data.parts[3]),
               btn_up |-> IsOne(data.parts[4]),
               btn_left |-> IsOne(data.parts[5]),
               btn_down |-> IsOne(data.parts[6]),
               btn_right |-> IsOne(data.parts[7]),
               pitch |-> data.parts[8].v,
               roll |-> data.parts[9].v])

\* a mapper whose low threshold is inclusive
BelowLow_inclusive(v) == v <= THRESHOLD_LOW

BelowLow(v) == v < THRESHOLD_LOW
AboveHigh(v) == v > THRESHOLD_HIGH

\* lines 212-216
KeyState(f) ==
    [key_right |-> BelowLow(f.x_val) \/ f.btn_right,
     key_left |-> AboveHigh(f.x_val) \/ f.btn_left,
     key_down |-> AboveHigh(f.y_val) \/ f.btn_down,
     is_up_active |-> BelowLow(f.y_val) \/ f.btn_up,
     key_enter |-> f.sw_pressed]

Bit(b) == IF b THEN 1 ELSE 0

\* an emitter that ties the space bar to the enter key
KeyWrites_enter(ks) ==
    << <<"KEY_RIGHT", Bit(ks.key_right)>>,
       <<"KEY_LEFT", Bit(ks.key_left)>>,
       <<"KEY_DOWN", Bit(ks.key_down)>>,
       <<"KEY_ENTER", Bit(ks.key_enter)>>,
       <<"KEY_UP", Bit(ks.is_up_active)>>,
       <<"KEY_SPACE", Bit(ks.key_enter)>> >>

\* lines 219-226: the six write calls, in order
KeyWrites(ks) ==
    << <<"KEY_RIGHT", Bit(ks.key_right)>>,
       <<"KEY_LEFT", Bit(ks.key_left)>>,
       <<"KEY_DOWN", Bit(ks.key_down)>>,
       <<"KEY_ENTER", Bit(ks.key_enter)>>,
       <<"KEY_UP", Bit(ks.is_up_active)>>,
       <<"KEY_SPACE", Bit(ks.is_up_active)>> >>

\* UInput.write queues an event, UInput.syn commits the queued events
RECURSIVE Applied(_, _)
Applied(synced, events) ==
    IF events = <<>> THEN synced
    ELSE Applied([synced EXCEPT ![events[1][1]] = events[1][2]], Tail(events))

DevWrite(dev, events) == [dev EXCEPT !.pending = dev.pending \o events]
DevSyn(dev) == [dev EXCEPT !.synced = Applied(dev.synced, dev.pending), !.pending = <<>>]

\* an edge-triggered emitter: nothing is sent when no key changed
EmitNeeded_onchange(dev, events) == Applied(dev.synced, events) # dev.synced

\* lines 219-228 are not conditional
EmitNeeded(dev, events) == TRUE

\* lines 218-228 on an open device
Emit(dev, ks) ==
    IF EmitNeeded(dev, KeyWrites(ks))
    THEN [dev |-> DevSyn(DevWrite(dev, KeyWrites(ks))), writes |-> KeyWrites(ks), syns |-> 1]
    ELSE [dev |-> dev, writes |-> <<>>, syns |-> 0]

\* the whole _process_data call: a discarded datagram changes nothing; a write
\* on a closed device raises to the caller, after the detector was updated
process_data(d, keyboard, dev, data) ==
    LET f == Decode(data)
    IN  IF f = None
        THEN [det |-> d, dev |-> dev, outcome |-> "discarded", updated |-> FALSE,
              keys |-> None, writes |-> <<>>, syns |-> 0]
        ELSE LET ks == KeyState(Val(f))
                 d1 == update(d, Val(f).pitch, Val(f).roll)
             IN  IF keyboard = "open"
                 THEN [det |-> d1, dev |-> Emit(dev, ks).dev, outcome |-> "emitted",
                       updated |-> TRUE, keys |-> Some(ks),
                       writes |-> Emit(dev, ks).writes, syns |-> Emit(dev, ks).syns]
                 ELSE [det |-> d1, dev |-> dev, outcome |-> "raised", updated |-> TRUE,
                       keys |-> Some(ks), writes |-> <<>>, syns |-> 0]

-----------------------------------------------------------------------------
(* History variables *)

NoCheck ==
    [called |-> FALSE, by |-> "none", gap |-> None,
     armed |-> FALSE, deviated |-> FALSE, compared |-> FALSE,
     result |-> "false", early |-> FALSE]

\* the record of a call that returns: gap is the time elapsed since the latest
\* earlier call that passed the rate limit, early tells that fewer than
\* calibration_count update calls had been made
CheckRecord(by, d, log, n, current_time, compared, result) ==
    [called |-> TRUE, by |-> by,
     gap |-> IF log = <<>> THEN None
             ELSE Some(current_time - log[Len(log)].time),
     armed |-> ~NotArmed(d),
     deviated |-> d.baseline_pitch # None /\ d.baseline_roll # None /\ Deviates(d),
     compared |-> compared, result |-> result,
     early |-> n < calibration_count]

\* passLog keeps the last two calls that passed the rate limit
Logged(log, entry) ==
    IF log = <<>> THEN <<entry>> ELSE <<log[Len(log)], entry>>

\* the datagram is one the decoder must discard: not exactly 9 fields, or
\* fields 0-1 not integers, or fields 7-8 not numbers
Malformed(data) ==
    \/ Len(data.parts) # 9
    \/ /\ Len(data.parts) = 9
       /\ \/ data.parts[1].k # "int" \/ data.parts[2].k # "int"
          \/ data.parts[8].k = "junk" \/ data.parts[9].k = "junk"

\* the record of one received datagram: repeat tells that the device already
\* showed this frame's key values, quiet that the call changed neither the
\* detector nor the device
FrameRecord(d, dev, data, r) ==
    [malformed |-> Malformed(data), outcome |-> r.outcome,
     frame |-> Decode(data), writes |-> r.writes, syns |-> r.syns,
     repeat |-> r.writes # <<>> /\ Applied(dev.synced, r.writes) = dev.synced,
     quiet |-> r.det = d /\ r.dev = dev]

\* nUpdates counts up to calibration_count + 1
CountUpdate(n) == IF n <= calibration_count THEN n + 1 ELSE n

LogSample(log, pitch, roll) ==
    IF Len(log) < calibration_count THEN Append(log, <<pitch, roll>>) ELSE log

\* one whole check_anomaly call by thread `by` at clock value t, with its history
OneCall(st, by, n, t) ==
    LET call == check_anomaly(st.det, t)
    IN  [det |-> call.det,
         last |-> CheckRecord(by, st.det, st.log, n, t, call.compared, call.result),
         log |-> IF call.compared
                 THEN Logged(st.log, [time |-> t, result |-> call.result])
                 ELSE st.log]

\* k calls one after another
RECURSIVE Calls(_, _, _, _, _)
Calls(st, by, n, t, k) ==
    IF k = 0 THEN st ELSE Calls(OneCall(st, by, n, t), by, n, t, k - 1)

-----------------------------------------------------------------------------
(* Score files and the three parsers, lines 245-388 *)

SeqsUpTo(S, n) == UNION {[1..k -> S] : k \in 0..n}

\* LOG_PATHS, in iteration order
Games == <<"neverball", "supertux", "etr">>
GameSet == {Games[i] : i \in 1..Len(Games)}

\* SUPERTUX_USERNAME_FILE is kept with the score files
UsernameFile == "username"
Paths == GameSet \cup {UsernameFile}

\* A line is its text split at white space; a word is a run of digits ("1234"),
\* a decimal number ("41.25", held in hundredths), a run of digits and dots that
\* is no number ("1.2.3"), or other text ("alice").
Digits(v) == [k |-> "digits", v |-> v, s |-> ""]
Decimal(v) == [k |-> "decimal", v |-> v, s |-> ""]
Dots == [k |-> "dots", v |-> 0, s |-> "1.2.3"]
Text(s) == [k |-> "text", v |-> 0, s |-> s]

\* a file on disk; a file that cannot be opened has readable = FALSE
NoFile == [exists |-> FALSE, mtime |-> 0, lines |-> <<>>, readable |-> TRUE]

\* f"{n:02d}"
TwoDigits(n) == IF n < 10 THEN "0" \o ToString(n) ELSE ToString(n)

\* a record key that forgets the coins
record_key_nocoins(username, time_ms, coins) == <<username, time_ms, 0>>

\* line 269
record_key(username, time_ms, coins) == <<username, time_ms, coins>>

\* a parser that keeps the placeholder rows of the score table
Reserved_none == {}

\* line 263
Reserved == {Text("Hard"), Text("Medium"), Text("Easy")}

\* lines 264-267: time_ms is in hundredths of a second
time_str(time_ms) ==
    LET time_sec == time_ms \div 100
    IN  TwoDigits(time_sec \div 60) \o ":" \o TwoDigits(time_sec % 60)

\* line 259: ^(\d+)\s+(\d+)\s+(\S+)$ on the stripped line
NbMatch(line) == Len(line) = 3 /\ line[1].k = "digits" /\ line[2].k = "digits"

\* the state of a parser call: the detector and its history, the records so
\* far, the keys seen, the check_anomaly calls and appends made, in order
ParseStart(cx) ==
    [det |-> cx.det, last |-> cx.last, log |-> cx.log,
     logs |-> <<>>, seen |-> {}, events |-> <<>>, failed |-> FALSE]

\* the check_anomaly calls made so far by this parser call
Checks(st) == Cardinality({i \in 1..Len(st.events) : st.events[i].e = "check"})

\* time.time() as the next check_anomaly call of the pass reads it: the pass
\* starts at cx.t, and from its cx.late-th call on (if cx.late > 0) a second
\* has gone by
ClockAt(st, cx) ==
    IF cx.late > 0 /\ Checks(st) + 1 >= cx.late THEN cx.t + 1 ELSE cx.t

\* is_anomaly = mpu_detector.check_anomaly(): a TypeError raised by the call
\* ends the parser's try block
CheckCall(st, cx) ==
    LET c == OneCall([det |-> st.det, last |-> st.last, log |-> st.log],
                     cx.by, cx.n, ClockAt(st, cx))
    IN  [st EXCEPT !.det = c.det, !.last = c.last, !.log = c.log,
                   !.events = Append(@, [e |-> "check", flag |-> c.last.result,
                                         open |-> c.last.compared]),
                   !.failed = (c.last.result = "raise")]

\* the flag returned by the latest check_anomaly call of this parser call
LastFlag(st) == st.events[Len(st.events)].flag

\* logs.append({..., "is_anomaly": is_anomaly})
AppendFlagged(st, rec) ==
    [st EXCEPT !.logs = Append(@, [rec EXCEPT !.is_anomaly = (LastFlag(st) = "true")]),
               !.events = Append(@, [e |-> "append", flag |-> LastFlag(st),
                                     open |-> FALSE])]

\* a parser that flags a record without asking the detector
CheckAndAppend_nocheck(st, cx, rec) ==
    [st EXCEPT !.logs = Append(@, rec),
               !.events = Append(@, [e |-> "append", flag |-> "false",
                                     open |-> FALSE])]

\* the call and the append of parse_neverball_log and parse_etr_log, whose
\* conversions are all made before the call
CheckAndAppend(st, cx, rec) ==
    IF CheckCall(st, cx).failed
    THEN CheckCall(st, cx)
    ELSE AppendFlagged(CheckCall(st, cx), rec)

\* lines 258-284: one line of the Neverball file
NbLine(st, cx, line) ==
    IF ~NbMatch(line) THEN st
    ELSE IF line[3] \in Reserved THEN st
    ELSE IF record_key(line[3], line[1].v, line[2].v) \in st.seen THEN st
    ELSE CheckAndAppend(
            [st EXCEPT !.seen = @ \cup {record_key(line[3], line[1].v, line[2].v)}],
            cx,
            [username |-> line[3], level |-> 1, score |-> line[1].v,
             coins |-> line[2].v, time |-> time_str(line[1].v),
             is_anomaly |-> FALSE])

RECURSIVE NbLines(_, _, _)
NbLines(st, cx, lines) ==
    IF lines = <<>> \/ st.failed THEN st
    ELSE NbLines(NbLine(st, cx, lines[1]), cx, Tail(lines))

\* what a parser call returns, with the detector as it leaves it
ParseResult(outcome, st) ==
    [outcome |-> outcome, logs |-> IF outcome = "parsed" THEN st.logs ELSE <<>>,
     det |-> st.det, last |-> st.last, log |-> st.log, events |-> st.events]

\* the whole parse_neverball_log call: [] for an absent file and for any
\* exception (open fails, check_anomaly raises)
parse_neverball_log(file, cx) ==
    IF ~file.exists THEN ParseResult("absent", ParseStart(cx))
    ELSE IF ~file.readable THEN ParseResult("read_error", ParseStart(cx))
    ELSE LET st == NbLines(ParseStart(cx), cx, file.lines)
         IN  ParseResult(IF st.failed THEN "raised" ELSE "parsed", st)

\* int(text) of a \d+ match: the leading digits of the word
LeadingInt(tok) ==
    IF tok.k = "digits" THEN tok.v ELSE IF tok.k = "decimal" THEN tok.v \div 100 ELSE 1

\* float(text) of a [\d.]+ match raises ValueError on text such as "1.2.3"
FloatOk(tok) == tok.k \in {"digits", "decimal"}

\* float(text), in hundredths
FloatOf(tok) == IF tok.k = "digits" THEN 100 * tok.v ELSE tok.v

\* the words a pattern accepts after its tag: \S+, \d+ and [\d.]+
ValueKinds(tag) ==
    IF tag \in {"course", "plyr"} THEN {"digits", "decimal", "dots", "text"}
    ELSE {"digits", "decimal", "dots"}

EtrTags == <<"course", "plyr", "pts", "herr", "time">>

\* re.search(r'\[tag\]\s+(...)', line): the places where the pattern matches
TagMatches(line, tag) ==
    {i \in 1..Len(line) : line[i].tag = tag /\ line[i].val.k \in ValueKinds(tag)}

\* the first match
TagValue(line, tag) ==
    line[CHOOSE i \in TagMatches(line, tag) : \A j \in TagMatches(line, tag) : i <= j].val

\* line 360: all([...])
RequiredTags == {EtrTags[i] : i \in 1..Len(EtrTags)}

AllTags(line) == \A tag \in RequiredTags : TagMatches(line, tag) # {}

\* course.replace('_', ' ')
replace_underscore(s) ==
    CASE s = "bunny_hill" -> "bunny hill"
      [] s = "frozen_river" -> "frozen river"
      [] OTHER -> s

\* lines 367-369 (time_sec in hundredths): f"{minutes:02d}:{seconds:05.2f}"
etr_time_str(time_sec) ==
    TwoDigits(time_sec \div 6000) \o ":" \o TwoDigits((time_sec % 6000) \div 100)
        \o "." \o TwoDigits(time_sec % 100)

\* lines 354-380: one line of the ETR file; float() on line 365 may raise
EtrLine(st, cx, line) ==
    IF ~AllTags(line) THEN st
    ELSE IF ~FloatOk(TagValue(line, "time")) THEN [st EXCEPT !.failed = TRUE]
    ELSE CheckAndAppend(st, cx,
            [username |-> TagValue(line, "plyr"),
             course |-> replace_underscore(TagValue(line, "course").s),
             score |-> LeadingInt(TagValue(line, "pts")),
             herring |-> LeadingInt(TagValue(line, "herr")),
             time |-> etr_time_str(FloatOf(TagValue(line, "time"))),
             is_anomaly |-> FALSE])

RECURSIVE EtrLines(_, _, _)
EtrLines(st, cx, lines) ==
    IF lines = <<>> \/ st.failed THEN st
    ELSE EtrLines(EtrLine(st, cx, lines[1]), cx, Tail(lines))

\* the whole parse_etr_log call
parse_etr_log(file, cx) ==
    IF ~file.exists THEN ParseResult("absent", ParseStart(cx))
    ELSE IF ~file.readable THEN ParseResult("read_error", ParseStart(cx))
    ELSE LET st == EtrLines(ParseStart(cx), cx, file.lines)
         IN  ParseResult(IF st.failed THEN "raised" ELSE "parsed", st)

\* line 305: a block of the save file matches level_pattern when it has the
\* shape, a level name ending in .stl, digits for the two counts and a run of
\* digits and dots for the time
StxMatch(b) ==
    /\ b.shape /\ b.stl
    /\ b.coins.k = "digits" /\ b.secrets.k = "digits"
    /\ b.time_needed.k \in {"digits", "decimal", "dots"}

\* lines 309-317: the saved player name, "Player" when the file is absent,
\* unreadable or blank
SavedUsername(ufile) ==
    IF ufile.exists /\ ufile.readable /\ ufile.lines # <<>>
    THEN ufile.lines[1] ELSE Text("Player")

\* lines 320-332: the check is made before the dict is built, so float() on
\* line 330 raises after the call
StxBlock(st, cx, username, b) ==
    IF ~StxMatch(b) THEN st
    ELSE IF CheckCall(st, cx).failed THEN CheckCall(st, cx)
    ELSE IF ~FloatOk(b.time_needed) THEN [CheckCall(st, cx) EXCEPT !.failed = TRUE]
    ELSE AppendFlagged(CheckCall(st, cx),
            [username |-> username, level |-> b.base, coins |-> b.coins.v,
             secrets |-> b.secrets.v, time |-> FloatOf(b.time_needed),
             is_anomaly |-> FALSE])

RECURSIVE StxBlocks(_, _, _, _)
StxBlocks(st, cx, username, blocks) ==
    IF blocks = <<>> \/ st.failed THEN st
    ELSE StxBlocks(StxBlock(st, cx, username, blocks[1]), cx, username, Tail(blocks))

\* the whole parse_supertux_log call
parse_supertux_log(file, ufile, cx) ==
    IF ~file.exists THEN ParseResult("absent", ParseStart(cx))
    ELSE IF ~file.readable THEN ParseResult("read_error", ParseStart(cx))
    ELSE LET st == StxBlocks(ParseStart(cx), cx, SavedUsername(ufile), file.lines)
         IN  ParseResult(IF st.failed THEN "raised" ELSE "parsed", st)

\* the parser _watch_loop and parse_all pick for a game, lines 511-518, 534-541
ParserOf(game, fs, cx) ==
    IF game = "neverball" THEN parse_neverball_log(fs[game], cx)
    ELSE IF game = "supertux" THEN parse_supertux_log(fs[game], fs[UsernameFile], cx)
    ELSE parse_etr_log(fs[game], cx)

-----------------------------------------------------------------------------
(* The collector's log endpoints (src/main.py) and send_to_api, lines 390-418 *)

\* the columns the duplicate check of each endpoint compares
DedupKey(game, data) ==
    IF game = "neverball" THEN <<data.username, data.score, data.coins, data.time>>
    ELSE IF game = "supertux" THEN <<data.level, data.time>>
    ELSE <<data.username, data.course, data.score, data.herring, data.time>>

\* SuperTuxLog.time is Column(Float), src/main.py line 79, a single-precision
\* FLOAT column of the MySQL database of line 52: the INSERT keeps the nearest
\* single.  Times are in hundredths; a number of hundredths is a single
\* exactly when it is a whole number of quarters
ColumnFloat(t) == [hundredths |-> t, exact |-> t % 25 = 0]

\* the Python float of the request as the WHERE clause compares it: a double
Double(t) == [hundredths |-> t, exact |-> TRUE]

\* the row that db.add(log); db.commit() stores
Stored(game, data) ==
    IF game = "supertux" THEN [data EXCEPT !.time = ColumnFloat(@)] ELSE data

\* the values the filter compares the columns with
Compared(game, data) ==
    IF game = "supertux" THEN [data EXCEPT !.time = Double(@)] ELSE data

\* db.query(...).filter(...).first(): the ids of the matching rows
Existing(game, rows, data) ==
    {i \in 1..Len(rows) :
        DedupKey(game, rows[i]) = DedupKey(game, Compared(game, data))}

FirstOf(ids) == CHOOSE i \in ids : \A j \in ids : i <= j

\* add_neverball_log, add_supertux_log, add_etr_log: both returns are plain
\* dicts, so both answers carry status 200
add_log(game, rows, data) ==
    IF Existing(game, rows, data) # {}
    THEN [status |-> "200", success |-> FALSE,
          id |-> FirstOf(Existing(game, rows, data)), rows |-> rows]
    ELSE [status |-> "200", success |-> TRUE,
          id |-> Len(rows) + 1, rows |-> Append(rows, Stored(game, data))]

\* what requests.post gives for one record: a response with a status code, or
\* an exception
Statuses == {"200", "409", "500"}
Failures == {"ConnectionError", "Timeout"}

NoTally ==
    [requests |-> 0, success_count |-> 0, anomaly_count |-> 0,
     duplicate_count |-> 0, printed |-> 0, raised |-> FALSE]

\* a sink whose loop is left by a connection failure
Caught_notconn(outcome) == outcome # "ConnectionError"

\* lines 405-408: except ConnectionError, except Exception
Caught(outcome) == TRUE

\* lines 397-408 for one record
SendOne(t, log, outcome) ==
    [requests |-> t.requests + 1,
     success_count |-> IF outcome = "200" THEN t.success_count + 1 ELSE t.success_count,
     anomaly_count |-> IF outcome = "200" /\ log.is_anomaly
                       THEN t.anomaly_count + 1 ELSE t.anomaly_count,
     duplicate_count |-> IF outcome = "409"
                         THEN t.duplicate_count + 1 ELSE t.duplicate_count,
     printed |-> IF outcome \in Failures /\ outcome # "ConnectionError"
                 THEN t.printed + 1 ELSE t.printed,
     raised |-> outcome \in Failures /\ ~Caught(outcome)]

\* the for loop of send_to_api over a batch whose requests end as `outcomes`
RECURSIVE SendAll(_, _, _)
SendAll(t, logs, outcomes) ==
    IF logs = <<>> \/ t.raised THEN t
    ELSE SendAll(SendOne(t, logs[1], outcomes[1]), Tail(logs), Tail(outcomes))

\* the whole send_to_api call against given outcomes
send_to_api(logs, outcomes) == SendAll(NoTally, logs, outcomes)

\* the batch posted to the collector of src/main.py: the outcome of each
\* request is the handler's answer, or a connection failure when it is down
RECURSIVE Deliver(_, _, _, _)
Deliver(game, rows, logs, up) ==
    IF logs = <<>> THEN [rows |-> rows, outcomes |-> <<>>, fresh |-> 0]
    ELSE IF ~up
    THEN LET rest == Deliver(game, rows, Tail(logs), up)
         IN  [rest EXCEPT !.outcomes = <<"ConnectionError">> \o @]
    ELSE LET answer == add_log(game, rows, logs[1])
             rest == Deliver(game, answer.rows, Tail(logs), up)
         IN  [rest EXCEPT !.outcomes = <<answer.status>> \o @,
                          !.fresh = @ + (IF answer.success THEN 1 ELSE 0)]

-----------------------------------------------------------------------------
(* Initial state: module import done, main() about to run *)

Threads == {"main", "receiver", "poller"}

Keys == {"KEY_RIGHT", "KEY_LEFT", "KEY_DOWN", "KEY_ENTER", "KEY_UP", "KEY_SPACE"}

StartTime == check_interval   \* time.time() is far from the epoch

NoFrame ==
    [malformed |-> FALSE, outcome |-> "none", frame |-> None,
     writes |-> <<>>, syns |-> 0, repeat |-> FALSE, quiet |-> TRUE]

NoLocals ==
    [game |-> 0, current_time |-> 0, current_mtime |-> 0, logs |-> <<>>,
     frame |-> None]

\* the disk at start-up: one played Neverball game, the other files absent
StartFiles ==
    [p \in Paths |->
        IF p = "neverball"
        THEN [exists |-> TRUE, mtime |-> 1, readable |-> TRUE,
              lines |-> << <<Digits(1234), Digits(56), Text("alice")>> >>]
        ELSE NoFile]

NoParse ==
    [game |-> "none", by |-> "none", outcome |-> "none", lines |-> <<>>,
     logs |-> <<>>, events |-> <<>>]

NoSend == [game |-> "none", logs |-> <<>>, outcomes |-> <<>>, tally |-> NoTally]

\* what happened to a watched file since the poller last read its modification
\* time: writes, those of them that appended one new qualifying line, and
\* whether the change is still the poller's alone to deliver
Untouched == [writes |-> 0, gained |-> 0, clean |-> TRUE]

\* ConnectionManager.__init__, src/main.py lines 18-20
NoManager == [active_connections |-> <<>>, message_history |-> <<>>]

\* the clients of /ws/chat
Sockets == {"a", "b"}

\* a handler of /ws/chat that is not running: no broadcast in hand
NoHandler ==
    [pc |-> "closed", replayed |-> 0, m |-> 0, idx |-> 0, stay |-> {},
     sent |-> <<>>, after |-> "closed"]

\* the record of a finished broadcast: the connections registered from its
\* start to its end, and the connections it sent to, in order
NoBroadcast == [done |-> FALSE, m |-> 0, stay |-> {}, sent |-> <<>>]

NoChat == [n |-> 0, h |-> [ws \in Sockets |-> NoHandler], last |-> NoBroadcast]

NoPost ==
    [game |-> "none", posted |-> FALSE, matched |-> {}, success |-> FALSE,
     id |-> 0, inserted |-> 0]

NoPoll ==
    [game |-> "none", step |-> "none", outcome |-> "none", stored_before |-> 0,
     posts |-> 0, fresh |-> 0, reached |-> FALSE, accepted |-> 0, duplicate |-> 0,
     seen |-> Untouched, since |-> [g \in GameSet |-> Untouched]]

\* the record of a step of the poller on the file of a game
PollRecord(last, game, step) ==
    [NoPoll EXCEPT !.game = game, !.step = step, !.seen = last.seen,
                   !.since = last.since]

Init ==
    /\ mpu_detector = DetectorInit
    /\ now = StartTime
    /\ env \in [EVDEV_AVAILABLE : BOOLEAN, uinput_ok : BOOLEAN, port_free : BOOLEAN]
    /\ vk = [keyboard |-> "None", sock |-> "None", running |-> FALSE]
    /\ uinput = [pending |-> <<>>, synced |-> [k \in Keys |-> 0]]
    /\ watcher = [running |-> FALSE, last_modified |-> [g \in GameSet |-> 0]]
    /\ pc = [main |-> "new_keyboard", receiver |-> "not_started", poller |-> "not_started"]
    /\ loc = [t \in Threads |-> NoLocals]
    /\ nUpdates = 0
    /\ firstSamples = <<>>
    /\ lastCheck = NoCheck
    /\ passLog = <<>>
    /\ lastFrame = NoFrame
    /\ files = StartFiles
    /\ collector = [up |-> TRUE, rows |-> [g \in GameSet |-> <<>>]]
    /\ lastParse = NoParse
    /\ lastSend = NoSend
    /\ lastPoll = NoPoll
    /\ manager = NoManager
    /\ chat = NoChat
    /\ lastPost = NoPost

progVars == <<env, vk, uinput, watcher, pc, loc, lastFrame>>

Tick ==
    /\ now < MaxTime
    /\ now' = now + 1
    /\ UNCHANGED <<mpu_detector, progVars, nUpdates, firstSamples, lastCheck, passLog, pipeVars, serverVars>>

-----------------------------------------------------------------------------
(* The detector driven call by call (each call returns before the next) *)

DetReadings == {<<0, 0>>, <<20, -16>>}

DetUpdate(pitch, roll) ==
    /\ mpu_detector' = update(mpu_detector, pitch, roll)
    /\ nUpdates' = CountUpdate(nUpdates)
    /\ firstSamples' = LogSample(firstSamples, pitch, roll)
    /\ UNCHANGED <<now, progVars, lastCheck, passLog, pipeVars, serverVars>>

DetCheck ==
    /\ \E st \in {OneCall([det |-> mpu_detector, last |-> lastCheck, log |-> passLog],
                           "caller", nUpdates, now)} :
           /\ mpu_detector' = st.det
           /\ lastCheck' = st.last
           /\ passLog' = st.log
    /\ UNCHANGED <<now, progVars, nUpdates, firstSamples, pipeVars, serverVars>>

NextDet ==
    \/ \E r \in DetReadings : DetUpdate(r[1], r[2])
    \/ DetCheck
    \/ Tick

InitDet ==
    /\ Init
    /\ env = [EVDEV_AVAILABLE |-> TRUE, uinput_ok |-> TRUE, port_free |-> TRUE]

SpecDet == InitDet /\ [][NextDet]_vars

-----------------------------------------------------------------------------
(* main(): start-up and shutdown, lines 562-622 *)

detHistory == <<nUpdates, firstSamples, lastCheck, passLog>>

Goto(t, label) == pc' = [pc EXCEPT ![t] = label]

\* keyboard = VirtualKeyboard(): UInput fails without evdev or without privilege
MainNewKeyboard ==
    /\ pc.main = "new_keyboard"
    /\ vk' = IF env.EVDEV_AVAILABLE /\ env.uinput_ok
             THEN [vk EXCEPT !.keyboard = "open"]
             ELSE vk
    /\ Goto("main", "start_keyboard")
    /\ UNCHANGED <<mpu_detector, now, env, uinput, watcher, loc, lastFrame, detHistory, pipeVars, serverVars>>

\* a start() whose except branch does not return
MainStartKeyboard_noreturn ==
    /\ pc.main = "start_keyboard"
    /\ IF ~env.EVDEV_AVAILABLE \/ vk.keyboard = "None"
       THEN /\ vk' = vk
            /\ Goto("main", "new_watcher")
       ELSE /\ vk' = IF env.port_free
                     THEN [vk EXCEPT !.sock = "bound", !.running = TRUE]
                     ELSE [vk EXCEPT !.sock = "unbound"]
            /\ pc' = [pc EXCEPT !.main = "new_watcher", !.receiver = "loop"]
    /\ UNCHANGED <<mpu_detector, now, env, uinput, watcher, loc, lastFrame, detHistory, pipeVars, serverVars>>

\* keyboard.start(), lines 158-176
MainStartKeyboard ==
    /\ pc.main = "start_keyboard"
    /\ IF ~env.EVDEV_AVAILABLE \/ vk.keyboard = "None"
       THEN /\ vk' = vk
            /\ Goto("main", "new_watcher")
       ELSE IF env.port_free
       THEN /\ vk' = [vk EXCEPT !.sock = "bound", !.running = TRUE]
            /\ pc' = [pc EXCEPT !.main = "new_watcher", !.receiver = "loop"]
       ELSE /\ vk' = [vk EXCEPT !.sock = "unbound"]
            /\ Goto("main", "new_watcher")
    /\ UNCHANGED <<mpu_detector, now, env, uinput, watcher, loc, lastFrame, detHistory, pipeVars, serverVars>>

\* a watcher that gives an absent file the stored time 1
InitialModified_one(fs) ==
    [g \in GameSet |-> IF fs[g].exists THEN fs[g].mtime ELSE 1]

\* LogWatcher.__init__, lines 488-492
InitialModified(fs) ==
    [g \in GameSet |-> IF fs[g].exists THEN fs[g].mtime ELSE 0]

\* watcher = LogWatcher()
MainNewWatcher ==
    /\ pc.main = "new_watcher"
    /\ watcher' = [running |-> FALSE, last_modified |-> InitialModified(files)]
    /\ lastPoll' = [lastPoll EXCEPT !.since = [g \in GameSet |-> Untouched]]
    /\ Goto("main", "start_watcher")
    /\ UNCHANGED <<mpu_detector, now, env, vk, uinput, loc, lastFrame, detHistory,
                   files, collector, lastParse, lastSend, serverVars>>

\* watcher.start(), lines 494-499
MainStartWatcher ==
    /\ pc.main = "start_watcher"
    /\ watcher' = [watcher EXCEPT !.running = TRUE]
    /\ pc' = [pc EXCEPT !.main = "parse_all", !.poller = "loop"]
    /\ UNCHANGED <<mpu_detector, now, env, vk, uinput, loc, lastFrame, detHistory, pipeVars, serverVars>>

\* menu choice 4
MainMenuParse ==
    /\ pc.main = "menu"
    /\ Goto("main", "parse_all")
    /\ UNCHANGED <<mpu_detector, now, env, vk, uinput, watcher, loc, lastFrame, detHistory, pipeVars, serverVars>>

\* menu choice 0 or Ctrl-C: on to the finally block
MainMenuQuit ==
    /\ pc.main = "menu"
    /\ Goto("main", "stop_keyboard")
    /\ UNCHANGED <<mpu_detector, now, env, vk, uinput, watcher, loc, lastFrame, detHistory, pipeVars, serverVars>>

\* keyboard.stop(), lines 233-239
MainStopKeyboard ==
    /\ pc.main = "stop_keyboard"
    /\ vk' = [keyboard |-> IF vk.keyboard = "None" THEN "None" ELSE "closed",
              sock |-> IF vk.sock = "None" THEN "None" ELSE "closed",
              running |-> FALSE]
    /\ Goto("main", "stop_watcher")
    /\ UNCHANGED <<mpu_detector, now, env, uinput, watcher, loc, lastFrame, detHistory, pipeVars, serverVars>>

\* watcher.stop(); main returns and the daemon threads end with the process
MainStopWatcher ==
    /\ pc.main = "stop_watcher"
    /\ watcher' = [watcher EXCEPT !.running = FALSE]
    /\ Goto("main", "exit")
    /\ UNCHANGED <<mpu_detector, now, env, vk, uinput, loc, lastFrame, detHistory, pipeVars, serverVars>>

Alive == pc.main # "exit"

-----------------------------------------------------------------------------
(* A parse pass: parse_all (main) or one cycle of _watch_loop (poller).      *)
(* Each record found makes one check_anomaly call, taken line by line.       *)

\* where a thread goes when its pass over the three files is over
AfterPass(t) == IF t = "main" THEN "menu" ELSE "sleep"

\* parse_all, line 533: start the loop over the games
MainParseAll ==
    /\ pc.main = "parse_all"
    /\ Goto("main", "next_game")
    /\ loc' = [loc EXCEPT !.main.game = 0]
    /\ UNCHANGED <<mpu_detector, now, env, vk, uinput, watcher, lastFrame, detHistory, pipeVars, serverVars>>

\* the next game's file is read; the poller parses a file only when it exists
\* and its modification time has grown
ParseFile(t) ==
    /\ Alive
    /\ pc[t] = "next_game"
    /\ loc[t].game < Len(Games)
    /\ loc' = [loc EXCEPT ![t].game = loc[t].game + 1]
    /\ Goto(t, "records")
    /\ UNCHANGED <<mpu_detector, now, env, vk, uinput, watcher, lastFrame, detHistory, pipeVars, serverVars>>

\* the loop over the games is over
PassDone(t) ==
    /\ Alive
    /\ pc[t] = "next_game"
    /\ loc[t].game = Len(Games)
    /\ Goto(t, AfterPass(t))
    /\ UNCHANGED <<mpu_detector, now, env, vk, uinput, watcher, loc, lastFrame, detHistory, pipeVars, serverVars>>

\* no further line of the file makes a record: the logs go to send_to_api
FileDone(t) ==
    /\ Alive
    /\ pc[t] = "records"
    /\ Goto(t, "next_game")
    /\ UNCHANGED <<mpu_detector, now, env, vk, uinput, watcher, loc, lastFrame, detHistory, pipeVars, serverVars>>

\* the call returns to the parser; a TypeError ends the pass over this file
Returned(t, current_time, compared, result) ==
    /\ lastCheck' = lastCheck
    /\ passLog' = IF compared
                  THEN Logged(passLog, [time |-> current_time, result |-> result])
                  ELSE passLog
    /\ loc' = [loc EXCEPT ![t].current_time = 0]
    /\ Goto(t, IF result = "raise" THEN "next_game" ELSE "records")

\* a further line makes a record: check_anomaly is called, line 101
CheckEnter(t) ==
    /\ Alive
    /\ pc[t] = "records"
    /\ IF NotArmed(mpu_detector)
       THEN Returned(t, now, FALSE, "false")
       ELSE /\ Goto(t, "check_clock")
            /\ UNCHANGED <<loc, lastCheck, passLog, serverVars>>
    /\ UNCHANGED <<mpu_detector, now, env, vk, uinput, watcher, lastFrame, nUpdates, firstSamples, pipeVars, serverVars>>

\* lines 105-107: read the clock and last_check_time
CheckClock(t) ==
    /\ Alive
    /\ pc[t] = "check_clock"
    /\ IF RateLimited(mpu_detector, now)
       THEN Returned(t, now, FALSE, "false")
       ELSE /\ Goto(t, "check_stamp")
            /\ loc' = [loc EXCEPT ![t].current_time = now]
            /\ UNCHANGED <<lastCheck, passLog, serverVars>>
    /\ UNCHANGED <<mpu_detector, now, env, vk, uinput, watcher, lastFrame, nUpdates, firstSamples, pipeVars, serverVars>>

\* line 109
CheckStamp(t) ==
    /\ Alive
    /\ pc[t] = "check_stamp"
    /\ mpu_detector' = Stamp(mpu_detector, loc[t].current_time)
    /\ Goto(t, "check_compare")
    /\ UNCHANGED <<now, env, vk, uinput, watcher, loc, lastFrame, detHistory, pipeVars, serverVars>>

\* lines 112-122; a TypeError ends the pass over this file with no record
CheckCompare(t) ==
    /\ Alive
    /\ pc[t] = "check_compare"
    /\ Returned(t, loc[t].current_time, TRUE, Compare(mpu_detector))
    /\ UNCHANGED <<mpu_detector, now, env, vk, uinput, watcher, lastFrame, nUpdates, firstSamples, pipeVars, serverVars>>

ParseStep(t) ==
    \/ ParseFile(t)
    \/ PassDone(t)
    \/ FileDone(t)
    \/ CheckEnter(t)
    \/ CheckClock(t)
    \/ CheckStamp(t)
    \/ CheckCompare(t)

MainControl ==
    \/ MainNewKeyboard
    \/ MainStartKeyboard
    \/ MainNewWatcher
    \/ MainStartWatcher
    \/ MainMenuParse
    \/ MainMenuQuit
    \/ MainStopKeyboard
    \/ MainStopWatcher

\* parse_all taken as a whole: the three files hold k records in all, each
\* record makes one check_anomaly call
MainParseAllWhole(k) ==
    /\ pc.main = "parse_all"
    /\ \E st \in {Calls([det |-> mpu_detector, last |-> lastCheck, log |-> passLog],
                         "main", nUpdates, now, k)} :
           /\ mpu_detector' = st.det
           /\ lastCheck' = st.last
           /\ passLog' = st.log
    /\ Goto("main", "menu")
    /\ UNCHANGED <<now, env, vk, uinput, watcher, loc, lastFrame, nUpdates, firstSamples, pipeVars, serverVars>>

-----------------------------------------------------------------------------
(* _receive_loop with each iteration taken as a whole *)

\* one iteration: recvfrom returns a datagram and _process_data handles it
ReceiveDatagram(data) ==
    /\ Alive
    /\ pc.receiver = "loop"
    /\ vk.running
    /\ vk.sock = "bound"
    /\ \E r \in {process_data(mpu_detector, vk.keyboard, uinput, data)} :
           /\ mpu_detector' = r.det
           /\ uinput' = r.dev
           /\ lastFrame' = FrameRecord(mpu_detector, uinput, data, r)
           /\ nUpdates' = IF r.updated THEN CountUpdate(nUpdates) ELSE nUpdates
           /\ firstSamples' = IF r.updated
                              THEN LogSample(firstSamples, Val(Decode(data)).pitch,
                                             Val(Decode(data)).roll)
                              ELSE firstSamples
    /\ UNCHANGED <<now, env, vk, watcher, pc, loc, lastCheck, passLog, pipeVars, serverVars>>

\* the while condition fails after stop()
ReceiverExit ==
    /\ Alive
    /\ pc.receiver = "loop"
    /\ ~vk.running
    /\ Goto("receiver", "done")
    /\ UNCHANGED <<mpu_detector, now, env, vk, uinput, watcher, loc, lastFrame, detHistory, pipeVars, serverVars>>

\* Datagrams of the keyboard specification
Flags == {IntTok(0), IntTok(1)}
AxisValues == {999, 1000, 3000, 3001}

WellFormed(x, y, sw, up, left, down, right, pitch, roll) ==
    [utf8 |-> TRUE,
     parts |-> <<IntTok(x), IntTok(y), sw, up, left, down, right, pitch, roll>>]

\* the switch and the four buttons, at most one of them pressed
FlagSets == {ff \in [3..7 -> Flags] : Cardinality({i \in 3..7 : ff[i] = IntTok(1)}) <= 1}

AxisPairs ==
    {<<x, 2000>> : x \in AxisValues} \cup {<<2000, y>> : y \in AxisValues}
        \cup {<<999, 3001>>, <<3001, 999>>}

KbGood ==
    {WellFormed(xy[1], xy[2], ff[3], ff[4], ff[5], ff[6], ff[7], DecTok(0), IntTok(0)) :
        xy \in AxisPairs, ff \in FlagSets}

Rest == WellFormed(2000, 2000, IntTok(0), IntTok(0), IntTok(0), IntTok(0), IntTok(0),
                   DecTok(0), DecTok(0))

\* datagrams with a wrong field count, an unparsable number, a flag that is
\* not "0" or "1", or bytes that are not UTF-8
KbOdd ==
    {[Rest EXCEPT !.parts = SubSeq(Rest.parts, 1, 8)],
     [Rest EXCEPT !.parts = Append(Rest.parts, IntTok(1))],
     [Rest EXCEPT !.parts[1] = Junk],
     [Rest EXCEPT !.parts[2] = DecTok(999)],
     [Rest EXCEPT !.parts[8] = Junk],
     [Rest EXCEPT !.parts[9] = Junk],
     [Rest EXCEPT !.parts[3] = Junk],
     [Rest EXCEPT !.utf8 = FALSE]}

KbDatagrams == KbGood \cup KbOdd

NextKb ==
    \/ MainControl
    \/ \E k \in 0..MaxRecords : MainParseAllWhole(k)
    \/ \E data \in KbDatagrams : ReceiveDatagram(data)
    \/ ReceiverExit

SpecKb == Init /\ [][NextKb]_vars

-----------------------------------------------------------------------------
(* LogWatcher._watch_loop, lines 501-523 *)

\* line 503: the while condition
PollerLoop ==
    /\ Alive
    /\ pc.poller = "loop"
    /\ IF watcher.running
       THEN /\ Goto("poller", "next_game")
            /\ loc' = [loc EXCEPT !.poller.game = 0]
       ELSE /\ Goto("poller", "done")
            /\ loc' = loc
    /\ UNCHANGED <<mpu_detector, now, env, vk, uinput, watcher, lastFrame, detHistory, pipeVars, serverVars>>

\* lines 505-507: the file is absent, or its modification time has not grown
PollerSkipFile ==
    /\ Alive
    /\ pc.poller = "next_game"
    /\ loc.poller.game < Len(Games)
    /\ loc' = [loc EXCEPT !.poller.game = loc.poller.game + 1]
    /\ UNCHANGED <<mpu_detector, now, env, vk, uinput, watcher, pc, lastFrame, detHistory, pipeVars, serverVars>>

\* line 523: time.sleep(10) is over
PollerWake ==
    /\ Alive
    /\ pc.poller = "sleep"
    /\ Goto("poller", "loop")
    /\ UNCHANGED <<mpu_detector, now, env, vk, uinput, watcher, loc, lastFrame, detHistory, pipeVars, serverVars>>

PollerStep ==
    \/ PollerLoop
    \/ PollerSkipFile
    \/ PollerWake
    \/ ParseStep("poller")

-----------------------------------------------------------------------------
(* The score-file pipeline: the games write the files, the poller reads them  *)
(* line by line of _watch_loop, parse_all reads them, the collector answers.  *)

\* the detector and its history as a parser call by thread `by` finds them
Context(by) ==
    [det |-> mpu_detector, last |-> lastCheck, log |-> passLog,
     by |-> by, n |-> nUpdates, t |-> now, late |-> 0]

\* the records a pass over the file would extract, the detector left aside
Extract(game, fs) ==
    ParserOf(game, fs, [det |-> DetectorInit, last |-> NoCheck, log |-> <<>>,
                        by |-> "none", n |-> 0, t |-> 0, late |-> 0]).logs

\* the collector holds every record of the file
Covered(game, fs, rows) ==
    \A i \in 1..Len(Extract(game, fs)) :
        Existing(game, rows, Extract(game, fs)[i]) # {}

\* the poller is between two looks at the file of this game
BetweenPolls(game) ==
    \/ pc.poller \in {"not_started", "loop", "sleep", "next_game", "done", "crashed"}
    \/ Games[loc.poller.game] # game

\* a game, launched from the menu (launch_game, lines 432-459), appends a line
\* to its score file, creating the file if need be; the file system gives the
\* file a later modification time
Written(file, line) ==
    [exists |-> TRUE, mtime |-> file.mtime + 1, readable |-> file.readable,
     lines |-> Append(file.lines, line)]

\* the collector holds none of the records the written line adds to the file's
Unseen(game, fs, line, rows) ==
    \A i \in 1..Len(Extract(game, [fs EXCEPT ![game] = Written(@, line)])) :
        i > Len(Extract(game, fs))
            => Existing(game, rows,
                        Extract(game, [fs EXCEPT ![game] = Written(@, line)])[i]) = {}

\* the change history of a file after a write
Touched(h, game, line) ==
    [writes |-> h.writes + 1,
     gained |-> h.gained + Len(Extract(game, [files EXCEPT ![game] = Written(@, line)]))
                    - Len(Extract(game, files)),
     clean |-> /\ h.clean /\ files[game].exists /\ BetweenPolls(game)
               /\ Covered(game, files, collector.rows[game])
               /\ Unseen(game, files, line, collector.rows[game])]

FileWrite(game, line) ==
    /\ pc.main = "menu"
    /\ files[game].mtime < MaxMtime
    /\ Len(files[game].lines) < MaxLines
    /\ files' = [files EXCEPT ![game] = Written(@, line)]
    /\ lastPoll' = [lastPoll EXCEPT
            !.since[game] = Touched(@, game, line),
            !.seen.clean = @ /\ (BetweenPolls(game) \/ lastPoll.game # game)]
    /\ UNCHANGED <<mpu_detector, now, env, vk, uinput, watcher, pc, loc, lastFrame,
                   detHistory, collector, lastParse, lastSend, serverVars>>

\* the file is deleted
FileRemove(game) ==
    /\ pc.main = "menu"
    /\ files[game].exists
    /\ files' = [files EXCEPT ![game].exists = FALSE, ![game].lines = <<>>]
    /\ lastPoll' = [lastPoll EXCEPT
            !.since[game] = [writes |-> @.writes + 1, gained |-> @.gained, clean |-> FALSE],
            !.seen.clean = @ /\ (BetweenPolls(game) \/ lastPoll.game # game)]
    /\ UNCHANGED <<mpu_detector, now, env, vk, uinput, watcher, pc, loc, lastFrame,
                   detHistory, collector, lastParse, lastSend, serverVars>>

\* open() on the file starts or stops failing (permissions, I/O errors)
FileReadable(game) ==
    /\ pc.main = "menu"
    /\ files[game].exists
    /\ files' = [files EXCEPT ![game].readable = ~@]
    /\ UNCHANGED <<mpu_detector, now, env, vk, uinput, watcher, pc, loc, lastFrame,
                   detHistory, collector, lastParse, lastSend, lastPoll, serverVars>>

\* the collector goes down or comes back
CollectorFlip ==
    /\ pc.main = "menu"
    /\ collector' = [collector EXCEPT !.up = ~@]
    /\ UNCHANGED <<mpu_detector, now, env, vk, uinput, watcher, pc, loc, lastFrame,
                   detHistory, files, lastParse, lastSend, lastPoll, serverVars>>

\* line 504: the next game of the cycle
PollNext ==
    /\ Alive
    /\ pc.poller = "next_game"
    /\ loc.poller.game < Len(Games)
    /\ loc' = [loc EXCEPT !.poller.game = @ + 1]
    /\ Goto("poller", "exists")
    /\ UNCHANGED <<mpu_detector, now, env, vk, uinput, watcher, lastFrame, detHistory, pipeVars, serverVars>>

PollGame == Games[loc.poller.game]

\* line 505: os.path.exists(path)
PollExists ==
    /\ Alive
    /\ pc.poller = "exists"
    /\ Goto("poller", IF files[PollGame].exists THEN "getmtime" ELSE "next_game")
    /\ lastPoll' = IF files[PollGame].exists THEN lastPoll
                   ELSE [PollRecord(lastPoll, PollGame, "absent") EXCEPT !.seen = Untouched]
    /\ UNCHANGED <<mpu_detector, now, env, vk, uinput, watcher, loc, lastFrame,
                   detHistory, files, collector, lastParse, lastSend, serverVars>>

\* line 506: current_mtime = os.path.getmtime(path); the line stands in no try
\* block, so the OSError raised for a file that is gone ends _watch_loop and
\* with it the thread
PollGetmtime ==
    /\ Alive
    /\ pc.poller = "getmtime"
    /\ IF files[PollGame].exists
       THEN /\ loc' = [loc EXCEPT !.poller.current_mtime = files[PollGame].mtime]
            /\ Goto("poller", "compare")
            /\ lastPoll' = [PollRecord(lastPoll, PollGame, "looked") EXCEPT
                                !.seen = lastPoll.since[PollGame],
                                !.since[PollGame] = Untouched]
       ELSE /\ loc' = loc
            /\ Goto("poller", "crashed")
            /\ lastPoll' = [PollRecord(lastPoll, PollGame, "vanished") EXCEPT
                                !.seen = Untouched]
    /\ UNCHANGED <<mpu_detector, now, env, vk, uinput, watcher, lastFrame,
                   detHistory, files, collector, lastParse, lastSend, serverVars>>

\* a poller that also re-parses a file whose time has not moved
Changed_orsame(current_mtime, stored) == current_mtime >= stored

\* line 507
Changed(current_mtime, stored) == current_mtime > stored

\* lines 507-509: the comparison and the assignment to last_modified, which
\* precedes the parser call
PollCompare ==
    /\ Alive
    /\ pc.poller = "compare"
    /\ IF Changed(loc.poller.current_mtime, watcher.last_modified[PollGame])
       THEN /\ watcher' = [watcher EXCEPT !.last_modified[PollGame] =
                                               loc.poller.current_mtime]
            /\ Goto("poller", "parse")
            /\ lastPoll' = [PollRecord(lastPoll, PollGame, "changed") EXCEPT
                               !.stored_before = watcher.last_modified[PollGame]]
       ELSE /\ watcher' = watcher
            /\ Goto("poller", "next_game")
            /\ lastPoll' = PollRecord(lastPoll, PollGame, "unchanged")
    /\ UNCHANGED <<mpu_detector, now, env, vk, uinput, loc, lastFrame,
                   detHistory, files, collector, lastParse, lastSend, serverVars>>

\* the record of a parser call
ParseRecord(game, by, fs, r) ==
    [game |-> game, by |-> by, outcome |-> r.outcome, lines |-> fs[game].lines,
     logs |-> r.logs, events |-> r.events]

\* lines 511-520: the parser call taken as a whole, then `if logs`
PollParse ==
    /\ Alive
    /\ pc.poller = "parse"
    /\ \E r \in {ParserOf(PollGame, files, Context("poller"))} :
           /\ mpu_detector' = r.det
           /\ lastCheck' = r.last
           /\ passLog' = r.log
           /\ loc' = [loc EXCEPT !.poller.logs = r.logs]
           /\ lastPoll' = [PollRecord(lastPoll, PollGame, "parsed") EXCEPT
                               !.outcome = r.outcome,
                               !.stored_before = lastPoll.stored_before]
           /\ Goto("poller", IF r.logs # <<>> THEN "send" ELSE "next_game")
    /\ UNCHANGED <<now, env, vk, uinput, watcher, lastFrame, nUpdates, firstSamples,
                   files, collector, lastParse, lastSend, serverVars>>

\* line 521: send_to_api(game, logs)
PollSend ==
    /\ Alive
    /\ pc.poller = "send"
    /\ \E d \in {Deliver(PollGame, collector.rows[PollGame], loc.poller.logs,
                         collector.up)} :
           /\ collector' = [collector EXCEPT !.rows[PollGame] = d.rows]
           /\ lastPoll' = [PollRecord(lastPoll, PollGame, "sent") EXCEPT
                               !.posts = Len(d.outcomes), !.fresh = d.fresh,
                               !.reached = collector.up,
                               !.accepted =
                                   send_to_api(loc.poller.logs, d.outcomes).success_count,
                               !.duplicate =
                                   send_to_api(loc.poller.logs, d.outcomes).duplicate_count]
    /\ loc' = [loc EXCEPT !.poller.logs = <<>>]
    /\ Goto("poller", "next_game")
    /\ UNCHANGED <<mpu_detector, now, env, vk, uinput, watcher, lastFrame,
                   detHistory, files, lastParse, lastSend, serverVars>>

PollCycle ==
    \/ PollerLoop
    \/ PollNext
    \/ PollExists
    \/ PollGetmtime
    \/ PollCompare
    \/ PollParse
    \/ PollSend
    \/ PassDone("poller")
    \/ PollerWake

\* parse_all, lines 533-544, from the i-th game on: each file is parsed and
\* its records are sent before the next file is read
RECURSIVE ParseAllFrom(_, _)
ParseAllFrom(acc, i) ==
    IF i > Len(Games) THEN acc
    ELSE LET game == Games[i]
             r == ParserOf(game, files,
                           [det |-> acc.det, last |-> acc.last, log |-> acc.log,
                            by |-> "main", n |-> nUpdates, t |-> now, late |-> 0])
             d == Deliver(game, acc.rows[game], r.logs, collector.up)
         IN  ParseAllFrom(
                [det |-> r.det, last |-> r.last, log |-> r.log,
                 rows |-> [acc.rows EXCEPT ![game] = d.rows]],
                i + 1)

\* watcher.parse_all() taken as a whole; what it delivers is no longer the
\* poller's to deliver
MainParseAllFiles ==
    /\ pc.main = "parse_all"
    /\ \E acc \in {ParseAllFrom([det |-> mpu_detector, last |-> lastCheck,
                                 log |-> passLog, rows |-> collector.rows], 1)} :
           /\ mpu_detector' = acc.det
           /\ lastCheck' = acc.last
           /\ passLog' = acc.log
           /\ collector' = [collector EXCEPT !.rows = acc.rows]
    /\ lastPoll' = [lastPoll EXCEPT
            !.seen.clean = FALSE,
            !.since = [g \in GameSet |-> [lastPoll.since[g] EXCEPT !.clean = FALSE]]]
    /\ Goto("main", "menu")
    /\ UNCHANGED <<now, env, vk, uinput, watcher, loc, lastFrame, nUpdates,
                   firstSamples, files, lastParse, lastSend, serverVars>>

\* the lines Neverball appends in the pipeline specification: a new game and a
\* placeholder row of the score table
PollWrites ==
    {<<Digits(6100), Digits(7), Text("bob")>>,
     <<Digits(800), Digits(3), Text("Easy")>>}

NextPoll ==
    \/ MainControl
    \/ MainParseAllFiles
    \/ PollCycle
    \/ \E line \in PollWrites : FileWrite("neverball", line)
    \/ FileRemove("neverball")
    \/ FileReadable("neverball")
    \/ CollectorFlip

\* the controller plays no part in the pipeline: no evdev, no receiver
InitPoll ==
    /\ Init
    /\ env = [EVDEV_AVAILABLE |-> FALSE, uinput_ok |-> FALSE, port_free |-> TRUE]

SpecPoll == InitPoll /\ [][NextPoll]_vars

-----------------------------------------------------------------------------
(* The pipeline started on a disk without score files *)

\* the lines Neverball appends here: two results
AppearWrites ==
    {<<Digits(1234), Digits(56), Text("alice")>>,
     <<Digits(6100), Digits(7), Text("bob")>>}

NextAppear ==
    \/ MainControl
    \/ MainParseAllFiles
    \/ PollCycle
    \/ \E line \in AppearWrites : FileWrite("neverball", line)
    \/ FileRemove("neverball")

\* no game has been played yet: every path of LOG_PATHS is absent
InitAppear ==
    /\ mpu_detector = DetectorInit
    /\ now = StartTime
    /\ env = [EVDEV_AVAILABLE |-> FALSE, uinput_ok |-> FALSE, port_free |-> TRUE]
    /\ vk = [keyboard |-> "None", sock |-> "None", running |-> FALSE]
    /\ uinput = [pending |-> <<>>, synced |-> [k \in Keys |-> 0]]
    /\ watcher = [running |-> FALSE, last_modified |-> [g \in GameSet |-> 0]]
    /\ pc = [main |-> "new_keyboard", receiver |-> "not_started", poller |-> "not_started"]
    /\ loc = [t \in Threads |-> NoLocals]
    /\ nUpdates = 0
    /\ firstSamples = <<>>
    /\ lastCheck = NoCheck
    /\ passLog = <<>>
    /\ lastFrame = NoFrame
    /\ files = [p \in Paths |-> NoFile]
    /\ collector = [up |-> TRUE, rows |-> [g \in GameSet |-> <<>>]]
    /\ lastParse = NoParse
    /\ lastSend = NoSend
    /\ lastPoll = NoPoll
    /\ manager = NoManager
    /\ chat = NoChat
    /\ lastPost = NoPost

SpecAppear == InitAppear /\ [][NextAppear]_vars

-----------------------------------------------------------------------------
(* ConnectionManager and websocket_chat, src/main.py lines 17-38, 462-498.   *)
(* A message is known by its number in the order of the broadcast calls.      *)

\* a history that drops its newest message
Evict_newest(history) == SubSeq(history, 1, Len(history) - 1)

\* line 32: self.message_history.pop(0)
Evict(history) == Tail(history)

\* broadcast, lines 30-32
Remembered(history, m) ==
    IF Len(Append(history, m)) > history_limit
    THEN Evict(Append(history, m)) ELSE Append(history, m)

\* disconnect, line 27: list.remove takes out the first equal element
Removed(list, ws) ==
    SelectSeq(list, LAMBDA x : x # ws)

\* the elements of a list
Range(list) == {list[i] : i \in 1..Len(list)}

\* lines 464 and 23-24: the client connects, the handler accepts the socket
\* and registers it
Connect(ws) ==
    /\ chat.h[ws].pc = "closed"
    /\ chat.n < MaxMessages
    /\ manager' = [manager EXCEPT !.active_connections = Append(@, ws)]
    /\ chat' = [chat EXCEPT !.h[ws] = [NoHandler EXCEPT !.pc = "replay"]]
    /\ UNCHANGED <<mpu_detector, now, progVars, detHistory, pipeVars, lastPost>>

\* the part of broadcast that runs before its first await, lines 30-34: the
\* history is updated and the for loop takes an iterator over the live list
Begin(h, m, after) ==
    [h EXCEPT !.pc = "loop", !.m = m, !.idx = 0, !.sent = <<>>, !.after = after,
              !.stay = Range(manager'.active_connections)]

\* lines 467-475: the history is replayed to the newcomer, then the number of
\* connections is broadcast
Announce(ws) ==
    /\ chat.h[ws].pc = "replay"
    /\ chat.n < MaxMessages
    /\ manager' = [manager EXCEPT !.message_history = Remembered(@, chat.n + 1)]
    /\ chat' = [chat EXCEPT
            !.n = @ + 1,
            !.h[ws] = Begin([@ EXCEPT !.replayed = Len(manager.message_history)],
                            chat.n + 1, "receive")]
    /\ UNCHANGED <<mpu_detector, now, progVars, detHistory, pipeVars, lastPost>>

\* lines 480-490: receive_json returns a message of the client, which is
\* broadcast
Say(ws) ==
    /\ chat.h[ws].pc = "receive"
    /\ chat.n < MaxMessages
    /\ manager' = [manager EXCEPT !.message_history = Remembered(@, chat.n + 1)]
    /\ chat' = [chat EXCEPT !.n = @ + 1,
                            !.h[ws] = Begin(@, chat.n + 1, "receive")]
    /\ UNCHANGED <<mpu_detector, now, progVars, detHistory, pipeVars, lastPost>>

\* lines 492-498: receive_json raises WebSocketDisconnect; the handler takes
\* the socket off the list and broadcasts the new number of connections.  A
\* broadcast in progress no longer counts the socket as registered
Leave(ws) ==
    /\ chat.h[ws].pc = "receive"
    /\ chat.n < MaxMessages
    /\ manager' = [manager EXCEPT
            !.active_connections = Removed(@, ws),
            !.message_history = Remembered(@, chat.n + 1)]
    /\ chat' = [chat EXCEPT
            !.n = @ + 1,
            !.h = [x \in Sockets |->
                     IF x = ws THEN Begin(chat.h[ws], chat.n + 1, "closed")
                     ELSE [chat.h[x] EXCEPT !.stay = @ \ {ws}]]]
    /\ UNCHANGED <<mpu_detector, now, progVars, detHistory, pipeVars, lastPost>>

\* lines 34-35, one turn of the for loop: the list iterator yields the element
\* at its index in the list as it is now, and the send is awaited
BroadcastSend(ws) ==
    /\ chat.h[ws].pc = "loop"
    /\ chat.h[ws].idx < Len(manager.active_connections)
    /\ chat' = [chat EXCEPT
            !.h[ws].idx = @ + 1,
            !.h[ws].sent = Append(@, manager.active_connections[chat.h[ws].idx + 1])]
    /\ UNCHANGED <<mpu_detector, now, progVars, detHistory, pipeVars, manager, lastPost>>

\* line 34: the iterator is exhausted and broadcast returns to the handler
BroadcastEnd(ws) ==
    /\ chat.h[ws].pc = "loop"
    /\ chat.h[ws].idx >= Len(manager.active_connections)
    /\ chat' = [chat EXCEPT
            !.h[ws].pc = chat.h[ws].after,
            !.last = [done |-> TRUE, m |-> chat.h[ws].m, stay |-> chat.h[ws].stay,
                      sent |-> chat.h[ws].sent]]
    /\ UNCHANGED <<mpu_detector, now, progVars, detHistory, pipeVars, manager, lastPost>>

NextChat ==
    \E ws \in Sockets :
        \/ Connect(ws)
        \/ Announce(ws)
        \/ Say(ws)
        \/ Leave(ws)
        \/ BroadcastSend(ws)
        \/ BroadcastEnd(ws)

SpecChat == InitPoll /\ [][NextChat]_vars

-----------------------------------------------------------------------------
(* The chat with each handler run up to its next wait for the client *)

\* a whole broadcast call with no other handler running between its sends
Broadcast(list, m) ==
    [done |-> TRUE, m |-> m, stay |-> Range(list), sent |-> list]

\* lines 464-475 as a whole
JoinWhole(ws) ==
    /\ chat.h[ws].pc = "closed"
    /\ chat.n < MaxBroadcasts
    /\ manager' = [active_connections |-> Append(manager.active_connections, ws),
                   message_history |-> Remembered(manager.message_history, chat.n + 1)]
    /\ chat' = [chat EXCEPT
            !.n = @ + 1,
            !.h[ws] = [NoHandler EXCEPT !.pc = "receive",
                                        !.replayed = Len(manager.message_history)],
            !.last = Broadcast(manager'.active_connections, chat.n + 1)]
    /\ UNCHANGED <<mpu_detector, now, progVars, detHistory, pipeVars, lastPost>>

\* lines 480-490 as a whole
SayWhole(ws) ==
    /\ chat.h[ws].pc = "receive"
    /\ chat.n < MaxBroadcasts
    /\ manager' = [manager EXCEPT !.message_history = Remembered(@, chat.n + 1)]
    /\ chat' = [chat EXCEPT
            !.n = @ + 1,
            !.last = Broadcast(manager.active_connections, chat.n + 1)]
    /\ UNCHANGED <<mpu_detector, now, progVars, detHistory, pipeVars, lastPost>>

\* lines 492-498 as a whole
LeaveWhole(ws) ==
    /\ chat.h[ws].pc = "receive"
    /\ chat.n < MaxBroadcasts
    /\ manager' = [active_connections |-> Removed(manager.active_connections, ws),
                   message_history |-> Remembered(manager.message_history, chat.n + 1)]
    /\ chat' = [chat EXCEPT
            !.n = @ + 1,
            !.h[ws] = NoHandler,
            !.last = Broadcast(manager'.active_connections, chat.n + 1)]
    /\ UNCHANGED <<mpu_detector, now, progVars, detHistory, pipeVars, lastPost>>

NextHistory ==
    \E ws \in Sockets :
        \/ JoinWhole(ws)
        \/ SayWhole(ws)
        \/ LeaveWhole(ws)

SpecHistory == InitPoll /\ [][NextHistory]_vars

-----------------------------------------------------------------------------
(* The collector's log endpoints under any sequence of POSTs *)

\* request bodies: for each game two results, and for SuperTux a third whose
\* time is a whole number of quarters of a second
PostData(game) ==
    IF game = "neverball"
    THEN {[username |-> Text(u), level |-> 1, score |-> 1234, coins |-> 56,
           time |-> "00:12", is_anomaly |-> FALSE] : u \in {"alice", "bob"}}
    ELSE IF game = "supertux"
    THEN {[username |-> Text("alice"), level |-> "world1/intro", coins |-> 5,
           secrets |-> 1, time |-> t, is_anomaly |-> FALSE] : t \in {4567, 4550}}
         \cup {[username |-> Text("bob"), level |-> "world1/yeti", coins |-> 5,
                 secrets |-> 1, time |-> 4567, is_anomaly |-> FALSE]}
    ELSE {[username |-> Text("alice"), course |-> c, score |-> 120,
           herring |-> 9, time |-> "01:05.20", is_anomaly |-> FALSE]
              : c \in {"Bunny Hill", "Frozen River"}}

\* the rows that hold the key of the row this request would store
SameKey(game, rows, data) ==
    {i \in 1..Len(rows) :
        DedupKey(game, rows[i]) = DedupKey(game, Stored(game, data))}

\* the record of one POST and its answer
PostRecord(game, rows, data, answer) ==
    [game |-> game, posted |-> TRUE, matched |-> SameKey(game, rows, data),
     success |-> answer.success, id |-> answer.id,
     inserted |-> Len(answer.rows) - Len(rows)]

\* POST /api/<game>/log: the handler has no await, so it runs to its return
\* before the event loop serves another request
Post(game, data) ==
    /\ Len(collector.rows[game]) < MaxRows
    /\ \E answer \in {add_log(game, collector.rows[game], data)} :
           /\ collector' = [collector EXCEPT !.rows[game] = answer.rows]
           /\ lastPost' = PostRecord(game, collector.rows[game], data, answer)
    /\ UNCHANGED <<mpu_detector, now, env, vk, uinput, watcher, pc, loc, lastFrame,
                   detHistory, files, lastParse, lastSend, lastPoll, manager, chat>>

NextCollector == \E game \in GameSet : \E data \in PostData(game) : Post(game, data)

SpecCollector == InitPoll /\ [][NextCollector]_vars

-----------------------------------------------------------------------------
(* send_to_api against simulated responses *)

\* the records of a batch: one game result, flagged or not
SinkRecords ==
    {[username |-> Text("alice"), level |-> 1, score |-> 1234, coins |-> 56,
      time |-> "00:12", is_anomaly |-> b] : b \in BOOLEAN}

\* the record of a send_to_api call
SendRecord(game, logs, outcomes) ==
    [game |-> game, logs |-> logs, outcomes |-> outcomes,
     tally |-> send_to_api(logs, outcomes)]

\* send_to_api(game, logs), the i-th request ending as outcomes[i]
SinkSend(game, logs, outcomes) ==
    /\ lastSend' = SendRecord(game, logs, outcomes)
    /\ UNCHANGED <<mpu_detector, now, env, vk, uinput, watcher, pc, loc, lastFrame,
                   detHistory, files, collector, lastParse, lastPoll, serverVars>>

NextSink ==
    \E game \in GameSet, logs \in SeqsUpTo(SinkRecords, MaxBatch) :
        \E outcomes \in [1..Len(logs) -> Statuses \cup Failures] :
            SinkSend(game, logs, outcomes)

SpecSink == InitPoll /\ [][NextSink]_vars

-----------------------------------------------------------------------------
(* The three parsers applied to given files *)

\* lines of a Neverball score file: two games that differ in the coins, a
\* third game, a placeholder row, a row with the columns in the wrong order, a
\* row with a fourth column
NbInputLines ==
    {<<Digits(1234), Digits(56), Text("alice")>>,
     <<Digits(1234), Digits(57), Text("alice")>>,
     <<Digits(6100), Digits(7), Text("bob")>>,
     <<Digits(800), Digits(3), Text("Easy")>>,
     <<Text("Easy"), Digits(3), Digits(800)>>,
     <<Digits(1234), Digits(56), Text("alice"), Text("x")>>}

EtrGood ==
    << [tag |-> "course", val |-> Text("bunny_hill")],
       [tag |-> "plyr", val |-> Text("bob")],
       [tag |-> "pts", val |-> Digits(310)],
       [tag |-> "herr", val |-> Digits(12)],
       [tag |-> "time", val |-> Decimal(4125)] >>

\* lines of an ETR highscore file: a full line, one without the herring tag,
\* one whose points are no number, one whose time is "1.2.3"
EtrInputLines ==
    {EtrGood,
     <<EtrGood[1], EtrGood[2], EtrGood[3], EtrGood[5]>>,
     [EtrGood EXCEPT ![3].val = Text("many")],
     [EtrGood EXCEPT ![5].val = Dots]}

StxGood ==
    [shape |-> TRUE, stl |-> TRUE, base |-> "intro", coins |-> Digits(40),
     secrets |-> Digits(2), time_needed |-> Decimal(8350)]

\* blocks of a SuperTux save file: a finished level, a block of another shape,
\* a level whose time is "1.2.3"
StxInputBlocks ==
    {StxGood, [StxGood EXCEPT !.shape = FALSE], [StxGood EXCEPT !.time_needed = Dots]}

InputLines(game) ==
    IF game = "neverball" THEN NbInputLines
    ELSE IF game = "supertux" THEN StxInputBlocks ELSE EtrInputLines

\* the disks of the parser specification: one score file with up to MaxLines
\* lines, readable or not, and the saved player name present or not
ParseFiles ==
    UNION {
        {[p \in Paths |->
            IF p = game
            THEN [exists |-> TRUE, mtime |-> 1, readable |-> readable, lines |-> lines]
            ELSE IF p = UsernameFile /\ named
            THEN [exists |-> TRUE, mtime |-> 1, readable |-> TRUE,
                  lines |-> <<Text("bob")>>]
            ELSE NoFile] :
         readable \in BOOLEAN, named \in BOOLEAN,
         lines \in SeqsUpTo(InputLines(game), MaxLines)} :
        game \in GameSet}

RECURSIVE Updates(_, _, _, _)
Updates(d, pitch, roll, k) ==
    IF k = 0 THEN d ELSE Updates(update(d, pitch, roll), pitch, roll, k - 1)

\* the detector after calibration_count frames at rest and one tilted frame
ArmedTilted == update(Updates(DetectorInit, 0, 0, calibration_count), 20, 0)

\* a parser is called on a disk, the detector Calibrating or Armed and tilted
InitParse ==
    /\ \E armed \in BOOLEAN :
        /\ mpu_detector = IF armed THEN ArmedTilted ELSE DetectorInit
        /\ nUpdates = IF armed THEN calibration_count + 1 ELSE 0
        /\ firstSamples = IF armed THEN [i \in 1..calibration_count |-> <<0, 0>>]
                          ELSE <<>>
    /\ files \in ParseFiles
    /\ now = StartTime
    /\ env = [EVDEV_AVAILABLE |-> TRUE, uinput_ok |-> TRUE, port_free |-> TRUE]
    /\ vk = [keyboard |-> "open", sock |-> "bound", running |-> TRUE]
    /\ uinput = [pending |-> <<>>, synced |-> [k \in Keys |-> 0]]
    /\ watcher = [running |-> TRUE, last_modified |-> InitialModified(files)]
    /\ pc = [main |-> "parse_all", receiver |-> "loop", poller |-> "sleep"]
    /\ loc = [t \in Threads |-> NoLocals]
    /\ lastCheck = NoCheck
    /\ passLog = <<>>
    /\ lastFrame = NoFrame
    /\ collector = [up |-> TRUE, rows |-> [g \in GameSet |-> <<>>]]
    /\ lastParse = NoParse
    /\ lastSend = NoSend
    /\ lastPoll = NoPoll
    /\ manager = NoManager
    /\ chat = NoChat
    /\ lastPost = NoPost

\* the clock after a pass that started at `now`
ClockAfter(late, r) ==
    IF late > 0 /\ Cardinality({i \in 1..Len(r.events) : r.events[i].e = "check"}) >= late
    THEN now + 1 ELSE now

\* one parser call taken as a whole; the pass takes less than a second, or a
\* second goes by before its late-th check_anomaly call
ParseCall(game, late) ==
    /\ pc.main = "parse_all"
    /\ late > 0 => now < MaxTime
    /\ \E r \in {ParserOf(game, files, [Context("main") EXCEPT !.late = late])} :
           /\ mpu_detector' = r.det
           /\ lastCheck' = r.last
           /\ passLog' = r.log
           /\ lastParse' = ParseRecord(game, "main", files, r)
           /\ now' = ClockAfter(late, r)
    /\ UNCHANGED <<env, vk, uinput, watcher, pc, loc, lastFrame, nUpdates,
                   firstSamples, files, collector, lastSend, lastPoll, serverVars>>

NextParse ==
    \/ \E game \in GameSet, late \in 0..MaxLines : ParseCall(game, late)
    \/ Tick

SpecParse == InitParse /\ [][NextParse]_vars

-----------------------------------------------------------------------------
(* The whole program: three threads, check_anomaly taken line by line *)

Still == WellFormed(2000, 2000, IntTok(0), IntTok(0), IntTok(0), IntTok(0), IntTok(0),
                    DecTok(0), DecTok(0))
Tilted == [Still EXCEPT !.parts[8] = DecTok(20)]

\* the controller lies still until the baseline is set
SysDatagrams == IF NotArmed(mpu_detector) THEN {Still} ELSE {Still, Tilted}

Next ==
    \/ MainControl
    \/ MainParseAll
    \/ ParseStep("main")
    \/ PollerStep
    \/ \E data \in SysDatagrams : ReceiveDatagram(data)
    \/ ReceiverExit
    \/ Tick

Spec == Init /\ [][Next]_vars

-----------------------------------------------------------------------------
(* The update call that sets the baseline, taken assignment by assignment,   *)
(* beside a parse pass of the foreground thread                              *)

\* the datagram decodes and its update call reaches lines 93-96
Calibrates(data) ==
    /\ Decode(data) # None
    /\ SetsBaseline(mpu_detector, Val(Decode(data)).pitch, Val(Decode(data)).roll)

\* recvfrom returns the datagram; _process_data runs update up to and including
\* line 95, self.baseline_pitch = avg_pitch
ReceiveFirst(data) ==
    /\ Alive
    /\ pc.receiver = "loop"
    /\ vk.running
    /\ vk.sock = "bound"
    /\ Calibrates(data)
    /\ mpu_detector' = update_first(mpu_detector, Val(Decode(data)).pitch,
                                    Val(Decode(data)).roll)
    /\ loc' = [loc EXCEPT !.receiver.frame = Some(data)]
    /\ Goto("receiver", "baseline_roll")
    /\ UNCHANGED <<now, env, vk, uinput, watcher, lastFrame, detHistory, pipeVars,
                   serverVars>>

\* line 96, self.baseline_roll = avg_roll, and the rest of _process_data
ReceiveSecond ==
    /\ Alive
    /\ pc.receiver = "baseline_roll"
    /\ \E data \in {Val(loc.receiver.frame)} :
        \E r \in {process_data(update_second(mpu_detector), vk.keyboard, uinput, data)} :
           /\ mpu_detector' = r.det
           /\ uinput' = r.dev
           /\ lastFrame' = FrameRecord(mpu_detector, uinput, data, r)
           /\ nUpdates' = CountUpdate(nUpdates)
           /\ firstSamples' = LogSample(firstSamples, Val(Decode(data)).pitch,
                                        Val(Decode(data)).roll)
    /\ loc' = [loc EXCEPT !.receiver.frame = None]
    /\ Goto("receiver", "loop")
    /\ UNCHANGED <<now, env, vk, watcher, lastCheck, passLog, pipeVars, serverVars>>

\* any other datagram: the iteration as a whole
ReceiveOther(data) ==
    /\ ~Calibrates(data)
    /\ ReceiveDatagram(data)

NextBaseline ==
    \/ MainControl
    \/ MainParseAll
    \/ ParseStep("main")
    \/ ReceiveFirst(Still)
    \/ ReceiveSecond
    \/ ReceiveOther(Still)
    \/ ReceiverExit

SpecBaseline == Init /\ [][NextBaseline]_vars

-----------------------------------------------------------------------------
(* _process_data taken call by call on the device, beside stop()             *)

Pressed == WellFormed(2000, 2000, IntTok(0), IntTok(0), IntTok(0), IntTok(0), IntTok(1),
                      DecTok(0), DecTok(0))

\* the key state of the frame the receiver is processing
FrameKeys == KeyState(Val(Decode(Val(loc.receiver.frame))))

\* a write or syn call on a handle that stop() has closed: the call raises,
\* _process_data catches only ValueError, _receive_loop catches the error
Raised ==
    /\ lastFrame' = [malformed |-> FALSE, outcome |-> "raised",
                     frame |-> Decode(Val(loc.receiver.frame)),
                     writes |-> uinput.pending, syns |-> 0,
                     repeat |-> FALSE, quiet |-> FALSE]
    /\ loc' = [loc EXCEPT !.receiver.frame = None]
    /\ Goto("receiver", "loop")
    /\ UNCHANGED uinput

\* lines 180-216: recvfrom returns a datagram that decodes, mpu_detector.update
\* runs and the key state is computed
ReceiveDecoded(data) ==
    /\ Alive
    /\ pc.receiver = "loop"
    /\ vk.running
    /\ vk.sock = "bound"
    /\ Decode(data) # None
    /\ mpu_detector' = update(mpu_detector, Val(Decode(data)).pitch, Val(Decode(data)).roll)
    /\ nUpdates' = CountUpdate(nUpdates)
    /\ firstSamples' = LogSample(firstSamples, Val(Decode(data)).pitch,
                                 Val(Decode(data)).roll)
    /\ loc' = [loc EXCEPT !.receiver.frame = Some(data)]
    /\ Goto("receiver", "write")
    /\ UNCHANGED <<now, env, vk, uinput, watcher, lastFrame, lastCheck, passLog, pipeVars,
                   serverVars>>

\* a datagram that _process_data discards: the iteration as a whole
ReceiveDiscarded(data) ==
    /\ Decode(data) = None
    /\ ReceiveDatagram(data)

\* lines 219-226: the next of the six self.keyboard.write calls
KeyWrite ==
    /\ Alive
    /\ pc.receiver = "write"
    /\ IF vk.keyboard = "open"
       THEN /\ uinput' = DevWrite(uinput, <<KeyWrites(FrameKeys)[Len(uinput.pending) + 1]>>)
            /\ Goto("receiver", IF Len(uinput.pending) + 1 = Len(KeyWrites(FrameKeys))
                                THEN "syn" ELSE "write")
            /\ UNCHANGED <<loc, lastFrame>>
       ELSE Raised
    /\ UNCHANGED <<mpu_detector, now, env, vk, watcher, detHistory, pipeVars, serverVars>>

\* line 228: self.keyboard.syn()
KeySyn ==
    /\ Alive
    /\ pc.receiver = "syn"
    /\ IF vk.keyboard = "open"
       THEN /\ uinput' = DevSyn(uinput)
            /\ lastFrame' = [malformed |-> FALSE, outcome |-> "emitted",
                             frame |-> Decode(Val(loc.receiver.frame)),
                             writes |-> uinput.pending, syns |-> 1,
                             repeat |-> Applied(uinput.synced, uinput.pending) = uinput.synced,
                             quiet |-> FALSE]
            /\ loc' = [loc EXCEPT !.receiver.frame = None]
            /\ Goto("receiver", "loop")
       ELSE Raised
    /\ UNCHANGED <<mpu_detector, now, env, vk, watcher, detHistory, pipeVars, serverVars>>

NextEmit ==
    \/ MainControl
    \/ MainParseAllWhole(0)
    \/ \E data \in {Still, Pressed} : ReceiveDecoded(data)
    \/ ReceiveDiscarded([Still EXCEPT !.utf8 = FALSE])
    \/ KeyWrite
    \/ KeySyn
    \/ ReceiverExit

SpecEmit == Init /\ [][NextEmit]_vars

-----------------------------------------------------------------------------
(* _receive_loop until shutdown *)

\* lines 180-188: recvfrom gives no datagram: the 1 s wait expires
\* (socket.timeout, continue) or another error is raised (logged while
\* running); either way the loop goes on to test self.running again
ReceiveFailure(kind) ==
    /\ Alive
    /\ pc.receiver = "loop"
    /\ vk.running
    /\ lastFrame' = [NoFrame EXCEPT !.outcome = kind]
    /\ UNCHANGED <<mpu_detector, now, env, vk, uinput, watcher, pc, loc, detHistory, pipeVars, serverVars>>

NextStop ==
    \/ MainControl
    \/ MainParseAllWhole(0)
    \/ \E data \in {Still, [Still EXCEPT !.utf8 = FALSE]} : ReceiveDatagram(data)
    \/ \E kind \in {"timeout", "error"} : ReceiveFailure(kind)
    \/ ReceiverExit

\* each thread that can take a step eventually takes one; main() leaves the
\* menu only when the user asks it to
SpecStop ==
    /\ Init
    /\ [][NextStop]_vars
    /\ WF_vars(ReceiverExit)
    /\ WF_vars(MainStopKeyboard \/ MainStopWatcher)


-----------------------------------------------------------------------------
(* Properties of the detector *)

\* C2: once Armed, a check_anomaly call made less than 2 s after the previous
\* check (the previous call that reached the comparison) returns false without
\* comparing, whatever the deviation; calls returning true are at least 2 s apart
C2_RateLimited ==
    /\ (lastCheck.called /\ lastCheck.armed /\ lastCheck.gap # None
            /\ Val(lastCheck.gap) < check_interval)
        => (~lastCheck.compared /\ lastCheck.result = "false")
    /\ \A i, j \in 1..Len(passLog) :
        (i < j /\ passLog[i].result = "true" /\ passLog[j].result = "true")
            => passLog[j].time - passLog[i].time >= check_interval

\* C2 witness: a deviated detector answered true, and a call less than 2 s later
\* answered false although still deviated
C2_Witness ==
    /\ lastCheck.called /\ lastCheck.armed /\ lastCheck.deviated
    /\ lastCheck.gap # None /\ Val(lastCheck.gap) < check_interval
    /\ lastCheck.result = "false"
    /\ passLog # <<>> /\ passLog[Len(passLog)].result = "true"

\* C3: after exactly 10 update calls the baseline is the arithmetic mean of the
\* 10 pitch values and of the 10 roll values passed; before the 10th update the
\* baseline is absent and every check_anomaly call returns false
C3_BaselineIsMean ==
    /\ nUpdates < calibration_count
        => (mpu_detector.baseline_pitch = None /\ mpu_detector.baseline_roll = None)
    /\ nUpdates >= calibration_count
        => /\ mpu_detector.baseline_pitch # None
           /\ mpu_detector.baseline_roll # None
           /\ Len(firstSamples) = calibration_count
           /\ calibration_count * Val(mpu_detector.baseline_pitch)
                = SCALE * SeqSum(Column(firstSamples, 1))
           /\ calibration_count * Val(mpu_detector.baseline_roll)
                = SCALE * SeqSum(Column(firstSamples, 2))
    /\ (lastCheck.called /\ lastCheck.early) => lastCheck.result = "false"

\* C3 witness: the 10th update has just set a baseline from mixed samples, and
\* the latest check was made while calibrating
C3_Witness ==
    /\ nUpdates = calibration_count
    /\ mpu_detector.baseline_pitch # None
    /\ Val(mpu_detector.baseline_pitch) \notin {0, SCALE * 20}
    /\ Val(mpu_detector.baseline_roll) \notin {0, SCALE * (-16)}
    /\ lastCheck.called /\ lastCheck.early

\* C4: once set, baseline pitch and baseline roll never change, and the detector
\* never returns from Armed to Calibrating
C4_BaselineImmutable ==
    [][/\ mpu_detector.baseline_pitch # None
            => mpu_detector'.baseline_pitch = mpu_detector.baseline_pitch
       /\ mpu_detector.baseline_roll # None
            => mpu_detector'.baseline_roll = mpu_detector.baseline_roll]_vars

\* C4 witness: an Armed detector has taken a further update whose reading differs
\* from the baseline, and a check after it
C4_Witness ==
    /\ nUpdates > calibration_count
    /\ mpu_detector.baseline_pitch # None
    /\ SCALE * mpu_detector.current_pitch # Val(mpu_detector.baseline_pitch)
    /\ lastCheck.called /\ lastCheck.compared

-----------------------------------------------------------------------------
(* Properties of the receiver and the virtual keyboard *)

\* C5: in every committed (synced) state of the virtual keyboard the value of
\* KEY_SPACE equals the value of KEY_UP, and so do the values written by a frame
C5_SpaceEqualsUp ==
    /\ uinput.synced["KEY_SPACE"] = uinput.synced["KEY_UP"]
    /\ \A i, j \in 1..Len(lastFrame.writes) :
        (lastFrame.writes[i][1] = "KEY_UP" /\ lastFrame.writes[j][1] = "KEY_SPACE")
            => lastFrame.writes[i][2] = lastFrame.writes[j][2]

\* C5 witness: a frame committed Up and Space pressed while Enter is released
C5_Witness ==
    /\ lastFrame.outcome = "emitted"
    /\ uinput.synced["KEY_UP"] = 1
    /\ uinput.synced["KEY_SPACE"] = 1
    /\ uinput.synced["KEY_ENTER"] = 0

\* C6: the key state of every frame is right = (x<1000) or btnRight,
\* left = (x>3000) or btnLeft, down = (y>3000) or btnDown, up = (y<1000) or
\* btnUp, enter = switchPressed, with strict comparisons
C6_KeyMapping ==
    lastFrame.outcome = "emitted" =>
        LET f == Val(lastFrame.frame)
        IN  /\ uinput.synced["KEY_RIGHT"] = Bit(f.x_val < 1000 \/ f.btn_right)
            /\ uinput.synced["KEY_LEFT"] = Bit(f.x_val > 3000 \/ f.btn_left)
            /\ uinput.synced["KEY_DOWN"] = Bit(f.y_val > 3000 \/ f.btn_down)
            /\ uinput.synced["KEY_UP"] = Bit(f.y_val < 1000 \/ f.btn_up)
            /\ uinput.synced["KEY_ENTER"] = Bit(f.sw_pressed)

\* C6 witness: x = 1000 with the right button released gives right = 0, in a
\* frame whose up button alone presses Up
C6_Witness ==
    /\ lastFrame.outcome = "emitted"
    /\ Val(lastFrame.frame).x_val = 1000
    /\ ~Val(lastFrame.frame).btn_right
    /\ uinput.synced["KEY_RIGHT"] = 0
    /\ Val(lastFrame.frame).btn_up
    /\ uinput.synced["KEY_UP"] = 1

KeyOrder == <<"KEY_RIGHT", "KEY_LEFT", "KEY_DOWN", "KEY_ENTER", "KEY_UP", "KEY_SPACE">>

\* C7: every decoded frame writes the current value of the six keys (Right,
\* Left, Down, Enter, Up, Space) and then commits with exactly one sync, also
\* when its key state is the one the device already shows
C7_SixWritesOneSync ==
    lastFrame.frame # None =>
        /\ Len(lastFrame.writes) = 6
        /\ \A i \in 1..6 :
            /\ lastFrame.writes[i][1] = KeyOrder[i]
            /\ uinput.synced[KeyOrder[i]] = lastFrame.writes[i][2]
        /\ lastFrame.syns = 1
        /\ uinput.pending = <<>>

\* C7 witness: a frame repeated the key state of the frame before it, a key
\* being held
C7_Witness ==
    /\ lastFrame.frame # None
    /\ lastFrame.repeat
    /\ uinput.synced["KEY_RIGHT"] = 1
    /\ lastFrame.syns = 1

\* C8: a datagram without exactly 9 fields, or whose fields 0-1 are not
\* integers or fields 7-8 not numbers, is discarded: the detector and the
\* device are as before, nothing is written or synced, nothing is raised and
\* the receiver loop goes on
C8_MalformedDiscarded ==
    lastFrame.malformed =>
        /\ lastFrame.outcome = "discarded"
        /\ lastFrame.quiet
        /\ lastFrame.writes = <<>>
        /\ lastFrame.syns = 0
        /\ (pc.receiver = "loop" \/ ~vk.running)

\* C8 witness: a malformed datagram arrived while the detector held samples and
\* a key was held, and the loop is still receiving
C8_Witness ==
    /\ lastFrame.malformed
    /\ mpu_detector.calibration_samples # <<>>
    /\ uinput.synced["KEY_LEFT"] = 1
    /\ pc.receiver = "loop" /\ vk.running

-----------------------------------------------------------------------------
(* Properties of the threads *)

\* C1: check_anomaly's read of last_check_time, comparison and write are atomic
\* with respect to the other thread's calls, so of the calls the poller thread
\* and the foreground thread make inside the same 2 s window at most one passes
\* the rate limit and returns true
C1_OnePassPerWindow ==
    \A i, j \in 1..Len(passLog) :
        (i < j /\ passLog[i].result = "true" /\ passLog[j].result = "true")
            => Abs(passLog[j].time - passLog[i].time) >= check_interval

\* start() has returned and stop() has not been called
Serving ==
    pc.main \notin {"new_keyboard", "start_keyboard", "stop_watcher", "exit"}

\* C9: when the virtual input device could not be opened, the receiver loop
\* still runs (the port being free), so that datagrams still reach the detector
C9_ReceiverRunsWithoutDevice ==
    (Serving /\ vk.keyboard = "None" /\ env.port_free)
        => (vk.running /\ pc.receiver = "loop")

\* binding the UDP port failed in start()
BindFailed ==
    /\ pc.main \notin {"new_keyboard", "start_keyboard"}
    /\ vk.keyboard # "None"
    /\ ~env.port_free

\* C10: after a failed bind the receiver loop is not started, while the poller
\* is started and goes on until stop() and the foreground reaches its menu loop
C10_BindFailureOnlyStopsInput ==
    BindFailed =>
        /\ pc.receiver = "not_started"
        /\ ~vk.running
        /\ pc.main \notin {"new_watcher", "start_watcher", "stop_watcher", "exit"}
            => (watcher.running /\ pc.poller \notin {"not_started", "done"})
        /\ pc.main = "exit" => pc.poller # "not_started"

\* C10 witness: the bind failed, the foreground is in its menu after a manual
\* parse, and the poller has finished a cycle and sleeps
C10_Witness ==
    /\ BindFailed
    /\ vk.sock = "unbound"
    /\ pc.main = "menu"
    /\ pc.poller = "sleep"
    /\ watcher.running

-----------------------------------------------------------------------------
(* Properties of the parsers *)

\* a line '<time_ms> <coins> <username>' whose username is no placeholder
Qualifies(line) ==
    /\ Len(line) = 3
    /\ line[1].k = "digits" /\ line[2].k = "digits"
    /\ line[3].s \notin {"Hard", "Medium", "Easy"}

LineKey(line) == <<line[3], line[1].v, line[2].v>>

\* the qualifying lines that repeat no earlier qualifying line
FirstLines(L) ==
    {i \in 1..Len(L) :
        /\ Qualifies(L[i])
        /\ \A j \in 1..(i - 1) : Qualifies(L[j]) => LineKey(L[j]) # LineKey(L[i])}

Rank(F, i) == Cardinality({j \in F : j <= i})

\* MM:SS of floor(time_ms / 100) seconds, for the times of the input lines
ExpectedTime(time_ms) ==
    CASE time_ms = 1234 -> "00:12"
      [] time_ms = 6100 -> "01:01"
      [] time_ms = 800 -> "00:08"

\* C16: a pass of parse_neverball_log over a readable file returns, in file
\* order, exactly one record for each distinct (username, time_ms, coins) among
\* the lines '<time_ms> <coins> <username>' whose username is not Hard, Medium
\* or Easy, with time MM:SS of floor(time_ms/100) seconds ("1234 56 alice"
\* gives "00:12" and coins 56)
C16_NeverballRecords ==
    (lastParse.game = "neverball" /\ lastParse.outcome = "parsed") =>
        LET L == lastParse.lines
            R == lastParse.logs
        IN  /\ Len(R) = Cardinality(FirstLines(L))
            /\ \A i \in FirstLines(L) :
                /\ R[Rank(FirstLines(L), i)].username = L[i][3]
                /\ R[Rank(FirstLines(L), i)].score = L[i][1].v
                /\ R[Rank(FirstLines(L), i)].coins = L[i][2].v
                /\ R[Rank(FirstLines(L), i)].time = ExpectedTime(L[i][1].v)

\* C16 witness: "1234 56 alice" stood twice in the file and gave one record
\* with time "00:12" and coins 56
C16_Witness ==
    /\ lastParse.game = "neverball" /\ lastParse.outcome = "parsed"
    /\ Len(lastParse.lines) = 2
    /\ lastParse.lines[1] = lastParse.lines[2]
    /\ Len(lastParse.logs) = 1
    /\ lastParse.logs[1].username = Text("alice")
    /\ lastParse.logs[1].time = "00:12"
    /\ lastParse.logs[1].coins = 56

\* a line that carries the five tags, its points and herring count digits and
\* its time a number
FullLine(line) ==
    /\ \A tag \in {"course", "plyr"} : \E i \in 1..Len(line) : line[i].tag = tag
    /\ \A tag \in {"pts", "herr"} :
        \E i \in 1..Len(line) : line[i].tag = tag /\ line[i].val.k = "digits"
    /\ \E i \in 1..Len(line) :
        line[i].tag = "time" /\ line[i].val.k \in {"digits", "decimal"}

\* C17: parse_etr_log gives a record for a line iff the line carries all five
\* tags (course, plyr, pts, herr, time) with matching values; a line that
\* lacks a tag gives no record and does not keep the other lines from being
\* parsed
C17_EtrRecordIffFiveTags ==
    (lastParse.game = "etr" /\ lastParse.outcome \in {"parsed", "raised"}) =>
        Len(lastParse.logs) =
            Cardinality({i \in 1..Len(lastParse.lines) : FullLine(lastParse.lines[i])})

\* C18: in the three parsers every append of a record comes right after one
\* check_anomaly call, whose result is the record's flag, and every
\* check_anomaly call is followed by the append of a record: lines and blocks
\* that give no record make no call
C18_OneCheckPerRecord ==
    LET ev == lastParse.events
    IN  /\ \A i \in 1..Len(ev) :
            ev[i].e = "append" =>
                (i > 1 /\ ev[i - 1].e = "check" /\ ev[i - 1].flag = ev[i].flag)
        /\ \A i \in 1..Len(ev) :
            ev[i].e = "check" => (i < Len(ev) /\ ev[i + 1].e = "append")

-----------------------------------------------------------------------------
(* Properties of the delivery sink *)

\* the requests of the last batch that ended in one of these ways
Ended(ways) == {i \in 1..Len(lastSend.logs) : lastSend.outcomes[i] \in ways}

\* C13: send_to_api makes exactly one request per record of the batch, without
\* retry; success responses and only they count as accepted (and as anomalies
\* iff the record is flagged), conflict responses and only they count as
\* duplicates, a connection failure counts as nothing and raises nothing, and
\* no failure keeps the later records from being attempted
C13_OneRequestPerRecord ==
    /\ lastSend.tally.requests = Len(lastSend.logs)
    /\ lastSend.tally.success_count = Cardinality(Ended({"200"}))
    /\ lastSend.tally.anomaly_count =
            Cardinality({i \in Ended({"200"}) : lastSend.logs[i].is_anomaly})
    /\ lastSend.tally.duplicate_count = Cardinality(Ended({"409"}))
    /\ ~lastSend.tally.raised

\* C13 witness: the first request of a batch met a connection failure and the
\* second, for a flagged record, a conflict response
C13_Witness ==
    /\ Len(lastSend.logs) = 2
    /\ lastSend.outcomes = <<"ConnectionError", "409">>
    /\ lastSend.logs[2].is_anomaly
    /\ lastSend.tally.requests = 2
    /\ lastSend.tally.duplicate_count = 1
    /\ lastSend.tally.success_count = 0

\* C14: a record the collector already stores, posted again by a full-file
\* re-parse, is answered with a conflict response and counted by the sink as
\* duplicate, not as accepted
C14_RepostCountsAsDuplicate ==
    (lastPoll.step = "sent" /\ lastPoll.reached)
        => /\ lastPoll.accepted = lastPoll.fresh
           /\ lastPoll.duplicate = lastPoll.posts - lastPoll.fresh

\* C15: a collector response whose status is neither success nor conflict is
\* logged, and the record is dropped without retry and counted neither as
\* accepted nor as duplicate
C15_ErrorStatusLogged ==
    /\ lastSend.tally.printed >= Cardinality(Ended({"500"}))
    /\ lastSend.tally.requests = Len(lastSend.logs)
    /\ lastSend.tally.success_count + lastSend.tally.duplicate_count
            <= Len(lastSend.logs) - Cardinality(Ended({"500"}))

-----------------------------------------------------------------------------
(* Properties of the score-file pipeline *)

\* C11: the poller's stored modification time of a watched file is advanced only
\* after a successful re-parse: when the re-parse of a changed file fails (the
\* file cannot be read, the result is empty) the stored time is what it was, so
\* that the change is detected again on a later cycle
C11_StoredTimeAfterSuccess ==
    (lastPoll.step = "parsed" /\ lastPoll.outcome = "read_error")
        => watcher.last_modified[lastPoll.game] = lastPoll.stored_before

\* since the poller's previous look the file gained one new qualifying line and
\* nothing else happened to it, the collector holding all its earlier records
\* and not yet the record of the new line
GainedOne == [writes |-> 1, gained |-> 1, clean |-> TRUE]

\* C12: when the Neverball file gained one new qualifying line between two
\* polls, the next cycle (the file readable, the collector reachable) parses
\* it and the collector stores exactly one new record; a cycle that finds the
\* file not written since the previous look parses nothing and posts nothing
C12_OneNewRecordThenNone ==
    /\ (lastPoll.game = "neverball" /\ lastPoll.seen = GainedOne
            /\ lastPoll.step = "parsed" /\ lastPoll.outcome = "parsed")
        => (loc.poller.logs # <<>> /\ pc.poller = "send")
    /\ (lastPoll.game = "neverball" /\ lastPoll.seen = GainedOne
            /\ lastPoll.step = "sent" /\ lastPoll.reached)
        => lastPoll.fresh = 1
    /\ lastPoll.step \in {"changed", "parsed", "sent"} => lastPoll.seen.writes > 0
    /\ lastPoll.step = "unchanged" => (loc.poller.logs = <<>> /\ pc.poller # "send")

\* C12 witness: the cycle after the gain re-posted the whole file, the collector
\* stored one record more, and the file has not been written since
C12_Witness ==
    /\ lastPoll.game = "neverball" /\ lastPoll.seen = GainedOne
    /\ lastPoll.step = "sent" /\ lastPoll.reached
    /\ lastPoll.posts = 2 /\ lastPoll.fresh = 1
    /\ Len(collector.rows["neverball"]) = 2
    /\ lastPoll.since["neverball"] = Untouched

\* C20: a watched file that is missing during a poll cycle, also one removed in
\* the middle of the cycle, gives no records for the game, lets no error escape
\* and leaves the poller thread running
C20_AbsentFileIsNoData ==
    /\ pc.poller # "crashed"
    /\ lastPoll.step \in {"absent", "vanished"}
        => (loc.poller.logs = <<>> /\ pc.poller \notin {"parse", "send"})

\* C19: the receiver loop ends if and only if it is stopped: while the stop
\* flag is not set no expiry of the receive wait and no other error ends it,
\* and once stop() has cleared the flag the loop exits by itself, under fair
\* scheduling, rather than being cancelled
C19_ReceiverEndsIffStopped ==
    /\ [](pc.receiver = "done" => ~vk.running)
    /\ (pc.receiver = "loop" /\ ~vk.running) ~> (pc.receiver = "done")

-----------------------------------------------------------------------------
(* Frame of the detector's operations *)

\* the fields update may write, lines 85-96, apart from the readings
Calibration(d) == <<d.baseline_pitch, d.baseline_roll, d.calibration_samples>>

Readings(d) == <<d.current_pitch, d.current_roll>>

\* C25: update never changes last_check_time and reports nothing; check_anomaly
\* never changes the baseline, the current readings or the calibration samples;
\* a check_anomaly call made while the detector is Calibrating, or less than
\* check_interval after the stored check time, returns false and leaves
\* last_check_time as it was
C25_DisjointEffects ==
    [][/\ (\E r \in DetReadings : DetUpdate(r[1], r[2]))
            => /\ mpu_detector'.last_check_time = mpu_detector.last_check_time
               /\ mpu_detector'.enabled = mpu_detector.enabled
               /\ lastCheck' = lastCheck /\ passLog' = passLog
       /\ DetCheck
            => /\ Calibration(mpu_detector') = Calibration(mpu_detector)
               /\ Readings(mpu_detector') = Readings(mpu_detector)
               /\ (\/ mpu_detector.baseline_pitch = None
                   \/ now - mpu_detector.last_check_time < check_interval)
                    => /\ mpu_detector'.last_check_time = mpu_detector.last_check_time
                       /\ lastCheck'.result = "false"]_vars

\* C25 witness: an Armed, deviated detector has just rejected a check made one
\* second after the check that answered true; the stored check time is still
\* that of the earlier check
C25_Witness ==
    /\ lastCheck.called /\ lastCheck.armed /\ lastCheck.deviated
    /\ ~lastCheck.compared
    /\ passLog # <<>> /\ passLog[Len(passLog)].result = "true"
    /\ mpu_detector.last_check_time = passLog[Len(passLog)].time
    /\ now = mpu_detector.last_check_time + 1
    /\ nUpdates > calibration_count

-----------------------------------------------------------------------------
(* Properties of the watcher's stored modification times *)

\* C21: a watched file absent at start-up gets the stored modification time
\* zero; the first time the poller looks at it after it has appeared the file
\* counts as changed and, if it is still there and readable, is parsed in full
\* and every record of it is posted by send_to_api in that cycle; no stored
\* modification time ever decreases
C21_AbsentThenParsedInFull ==
    /\ [](pc.main = "start_watcher"
            => \A g \in GameSet :
                   ~files[g].exists => watcher.last_modified[g] = 0)
    /\ [](lastPoll.step = "unchanged" => watcher.last_modified[lastPoll.game] > 0)
    /\ [][(PollCompare /\ watcher.last_modified[PollGame] = 0)
            => pc'.poller = "parse"]_vars
    /\ [][(PollParse /\ lastPoll.stored_before = 0
                /\ files[PollGame].exists /\ files[PollGame].readable)
            => /\ loc'.poller.logs = Extract(PollGame, files)
               /\ loc'.poller.logs # <<>> => pc'.poller = "send"]_vars
    /\ [][PollSend => lastPoll'.posts = Len(loc.poller.logs)]_vars
    /\ [][\A g \in GameSet :
            watcher'.last_modified[g] >= watcher.last_modified[g]]_vars

\* C21 witness: the Neverball file, absent at start-up, has since been written
\* twice; the poller has taken it at its latest time and posted both records
C21_Witness ==
    /\ lastPoll.game = "neverball" /\ lastPoll.step = "sent"
    /\ lastPoll.posts = 2 /\ lastPoll.fresh = 2
    /\ files["neverball"].exists /\ files["neverball"].mtime = 2
    /\ watcher.last_modified["neverball"] = 2
    /\ Len(collector.rows["neverball"]) = 2

-----------------------------------------------------------------------------
(* Properties of the collector *)

\* C22: after any sequence of POSTs to the three log endpoints no table holds
\* two rows with the same key - (username, score, coins, time) for Neverball,
\* (level, time) for SuperTux, (username, course, score, herring, time) for
\* ETR - and a POST whose key is that of a row already stored inserts nothing
\* and returns that row's id
C22_NoDuplicateRows ==
    /\ \A game \in GameSet :
        \A i, j \in 1..Len(collector.rows[game]) :
            i < j => DedupKey(game, collector.rows[game][i])
                        # DedupKey(game, collector.rows[game][j])
    /\ (lastPost.posted /\ lastPost.matched # {})
        => /\ lastPost.inserted = 0
           /\ ~lastPost.success
           /\ lastPost.id \in lastPost.matched

-----------------------------------------------------------------------------
(* Properties of the chat *)

\* the number of sends a broadcast made to a connection
Times(sent, ws) == Cardinality({i \in 1..Len(sent) : sent[i] = ws})

\* C27: a finished broadcast has sent its message exactly once to every
\* connection that was registered from its start to its end, whatever
\* connections were added to or removed from the list between two of its sends
C27_BroadcastReachesAll ==
    chat.last.done => \A ws \in chat.last.stay : Times(chat.last.sent, ws) = 1

\* C28: after any sequence of broadcasts the message history holds at most 50
\* messages, and they are the most recently broadcast ones in the order of
\* their broadcast: the oldest is dropped when the 51st arrives
C28_HistoryKeepsNewest ==
    /\ Len(manager.message_history) <= history_limit
    /\ Len(manager.message_history)
        = (IF chat.n < history_limit THEN chat.n ELSE history_limit)
    /\ \A i \in 1..Len(manager.message_history) :
        manager.message_history[i] = chat.n - Len(manager.message_history) + i

\* C28 witness: more than 50 messages have been broadcast, two clients are
\* connected, and the history runs from the 50th newest to the newest
C28_Witness ==
    /\ chat.n > history_limit
    /\ Len(manager.active_connections) = 2
    /\ Len(manager.message_history) = history_limit
    /\ manager.message_history[1] = chat.n - history_limit + 1
    /\ manager.message_history[history_limit] = chat.n
    /\ chat.last.done /\ chat.last.m = chat.n

-----------------------------------------------------------------------------
(* Properties of the anomaly flags of a pass *)

\* the records of the latest pass that carry the flag
Flagged == {i \in 1..Len(lastParse.logs) : lastParse.logs[i].is_anomaly}

\* C24: in a parse pass that takes less than check_interval and has the
\* detector to itself, at most one record carries the anomaly flag, and a
\* call that answered true is the first call of the pass that found the rate
\* limit open; every later record carries false although the device stays
\* deviated
C24_OneFlagPerPass ==
    LET ev == lastParse.events
    IN  /\ Cardinality(Flagged) <= 1
        /\ \A i \in 1..Len(ev) :
            ev[i].flag = "true" /\ ev[i].e = "check"
                => (ev[i].open /\ \A j \in 1..(i - 1) : ~ev[j].open)
        /\ \A i \in Flagged :
            \E k \in 1..Len(ev) :
                /\ ev[k].e = "append" /\ ev[k].flag = "true"
                /\ Cardinality({j \in 1..k : ev[j].e = "append"}) = i

\* C24 witness: a pass over a two-record file began a second after a
\* flagged pass, with the device still deviated; its first record is not
\* flagged, the rate limit opened before its second call, and the second
\* record is the flagged one
C24_Witness ==
    /\ lastParse.outcome = "parsed" /\ Len(lastParse.logs) = 2
    /\ ~lastParse.logs[1].is_anomaly /\ lastParse.logs[2].is_anomaly
    /\ ~lastParse.events[1].open
    /\ lastCheck.deviated

-----------------------------------------------------------------------------
(* Properties of the baseline under concurrent checks *)

\* C23: the baseline is set as a pair: in every state baseline pitch is set
\* exactly when baseline roll is set, so that no check_anomaly call, running
\* while the receiver performs its 10th update, compares a reading with an
\* unset baseline roll and raises
C23_BaselineSetAsPair ==
    /\ (mpu_detector.baseline_pitch = None) <=> (mpu_detector.baseline_roll = None)
    /\ \A i \in 1..Len(passLog) : passLog[i].result # "raise"

\* C26: no write and no syn call is issued on the virtual input device after
\* stop() has closed it: a receiver thread that is in the middle of a frame when
\* the foreground thread calls stop() performs no further call on the closed
\* handle (no call of the receiver raises on a closed device)
C26_NoWriteAfterClose ==
    lastFrame.outcome # "raised"

====
